---------------------------- MODULE Spec2Model ----------------------------
(***************************************************************************)
(* A model of the LZ78 compressor of evilaliv3/lz78: the two dictionaries  *)
(* (lz78.c), the encoder and decoder state machines (compress_byte,        *)
(* decompress_code), the driver loops (lz78_compress, lz78_decompress)     *)
(* and the bit stream they write and read.                                 *)
(*                                                                         *)
(* Specifications.                                                         *)
(*   - Spec: a compressor and a decompressor joined by the stream.         *)
(*   - SpecStream: the decompressor on a stream of arbitrary fields.       *)
(*   - SpecCompressRetry, SpecDecompressRetry: the codec called again by   *)
(*     wrapper_exec after the would-block result, with the bit_file        *)
(*     (bitio.c) and the descriptors of each call.                         *)
(*   - SpecCall: either function called on its own instance, on the        *)
(*     instance of the other mode or on no instance.                       *)
(*   - SpecBits: bit_write, bit_close and bit_read alone, on a small       *)
(*     buffer, with any widths and source offsets.                         *)
(*   - SpecScenario: Spec on the inputs of the end-to-end scenarios, with  *)
(*     D = 4096.                                                           *)
(*   - SpecBlocking: bit_write and bit_close alone on a descriptor that    *)
(*     takes some, all or none of the bytes of a call.                     *)
(*   - SpecTruncated: wrapper_exec decompressing a stream that ends before *)
(*     its end code, under weak fairness of the program's steps.           *)
(*                                                                         *)
(* Representation.                                                         *)
(*   - A hash table (ht_entry *root, calloc'ed) is a function whose domain *)
(*     is the set of slots with used = 1; every other slot is all zero.    *)
(*   - The decoder's table (entry *root, malloc'ed) is a function whose    *)
(*     domain is the set of codes >= DICT_SIZE_MIN that were written; the  *)
(*     literal entries 0..259 never change and are computed by RootAt.     *)
(*     A field that was never written reads as GarbageLabel/GarbageParent. *)
(*   - uint32_t -1 (the empty cur_node) is the integer -1.                 *)
(*   - char is signed (gcc on x86): SignExt16 is the char -> uint16_t      *)
(*     conversion of line 293.                                             *)
(*   - An access outside an allocated array is performed on the function   *)
(*     (as the build performs it on the adjacent memory) and recorded in   *)
(*     the flag ub of the codec that made it.                              *)
(***************************************************************************)
EXTENDS Integers, Sequences, FiniteSets, TLC

\* ------------------------------------------------------------ constants

DICT_CODE_EOF == 256
DICT_CODE_SIZE == 257
DICT_CODE_START == 258
DICT_CODE_STOP == 259
DICT_SIZE_MIN == 260
DICT_SIZE_DEFAULT == 4096
DICT_SIZE_MAX == 1048576

LZ78_MODE_COMPRESS == 0
LZ78_MODE_DECOMPRESS == 1

LZ78_SUCCESS == 0
LZ78_ERROR_DICTIONARY == 1
LZ78_ERROR_READ == 2
LZ78_ERROR_WRITE == 3
LZ78_ERROR_EAGAIN == 4
LZ78_ERROR_COMPRESS == 5
LZ78_ERROR_DECOMPRESS == 6
LZ78_ERROR_INITIALIZATION == 7
LZ78_ERROR_MODE == 8

\* fgetc's end-of-file value
EOF == -1
\* a null pointer
NULL == [ptr |-> "null"]
\* a pointer read from memory that was never written and is not null
WILD == [ptr |-> "wild"]

\* ------------------------------------------------------------ bounds

\* longest input explored exhaustively over Alphabet
MaxLen == 8
\* length of the ramp input 0, 1, ..., 255, 0, ...
RampLen == 258
\* longest input explored for the sizes that only exercise the clamp
ShortLen == 1

\* most fields of a stream that is not written by the compressor
StreamLen == 4
\* longest input of the runs whose calls are repeated
RetryLen == 2
\* bytes in the buffer of the compressor's bit_file in those runs
BuffBytes == 2
\* most calls wrapper_exec makes in those runs
MaxCalls == 3

\* the bytes of the exhaustive inputs: 'A' and 'B'
Alphabet == {65, 66}

\* what a label and a parent that were never written read as
GarbageLabel == 999
GarbageParent == 0
\* the byte an uninitialised char reads as
GarbageByte == 0

\* ------------------------------------------------------------ helpers

Min(a, b) == IF a < b THEN a ELSE b

RECURSIVE bitlen(_)
bitlen(i) == IF i = 0 THEN 0 ELSE 1 + bitlen(i \div 2)

\* DICT_LIMIT without its upper limit
DICT_LIMIT_unbounded(x) ==
    IF x < DICT_SIZE_MIN + 1 THEN DICT_SIZE_MIN + 1 ELSE x

DICT_LIMIT(x) ==
    IF x < DICT_SIZE_MIN + 1 THEN DICT_SIZE_MIN + 1
    ELSE IF x > DICT_SIZE_MAX THEN DICT_SIZE_MAX
    ELSE x

DICT_SIZE_THRESHOLD(x) == (x * 8) \div 10

\* (char) of a uint16_t, kept as the byte 0..255 that is stored
Char(label) == label % 256
\* (uint16_t) of a signed char holding byte b
SignExt16(b) == IF b >= 128 THEN 65280 + b ELSE b

\* ------------------------------------------------- encoder dictionary

\* a dictionary whose first code is the first reserved code
ht_dictionary_new_reserved(d_size) ==
    LET size == DICT_LIMIT(d_size)
    IN  [root |-> << >>,
         cur_node |-> -1,
         prev_node |-> 0,
         d_size |-> size,
         d_thr |-> DICT_SIZE_THRESHOLD(size),
         d_next |-> DICT_CODE_EOF]

ht_dictionary_new(d_size) ==
    LET size == DICT_LIMIT(d_size)
    IN  [root |-> << >>,
         cur_node |-> -1,
         prev_node |-> 0,
         d_size |-> size,
         d_thr |-> DICT_SIZE_THRESHOLD(size),
         d_next |-> DICT_SIZE_MIN]

\* the Bernstein hash of lines 199-206.  label <= 256, bitlen(d_size) <= 21
\* and cur_node is a code, so key stays below 2^30 and hash below 2^24:
\* the uint32_t arithmetic never wraps
ht_hash(d, label) ==
    LET key == label * (2 ^ bitlen(d.d_size)) + d.cur_node
        b0 == key % 256
        b1 == (key \div 256) % 256
        b2 == (key \div 65536) % 256
        b3 == (key \div 16777216) % 256
        h == ((b0 * 33 + b1) * 33 + b2) * 33 + b3
    IN  h % d.d_size

\* the linear search of lines 210-219, started at slot hash after n slots
\* were examined: the slot of the match, the first free slot, or no result
\* when every slot is used and none matches (the loop never ends)
RECURSIVE ht_probe(_, _, _, _)
ht_probe(d, label, hash, n) ==
    IF hash \notin DOMAIN d.root
    THEN [found |-> FALSE, slot |-> hash, hang |-> FALSE]
    ELSE IF d.root[hash].parent = d.cur_node /\ d.root[hash].label = label
    THEN [found |-> TRUE, slot |-> hash, hang |-> FALSE]
    ELSE IF n + 1 >= d.d_size
    THEN [found |-> FALSE, slot |-> hash, hang |-> TRUE]
    ELSE ht_probe(d, label, (hash + 1) % d.d_size, n + 1)

\* ht_dictionary_install starting every string anew after an entry is
\* installed
ht_dictionary_install_anew(d1, label, p) ==
    IF p.hang
    THEN [d |-> d1, ret |-> -1, hang |-> TRUE]
    ELSE IF p.found
    THEN [d |-> [d1 EXCEPT !.cur_node = d1.root[p.slot].child],
          ret |-> -1, hang |-> FALSE]
    ELSE [d |-> [d1 EXCEPT
                   !.root = (p.slot :> [parent |-> d1.prev_node,
                                        label |-> label,
                                        child |-> d1.d_next])
                            @@ d1.root,
                   !.cur_node = -1,
                   !.d_next = d1.d_next + 1],
          ret |-> 0, hang |-> FALSE]

\* ht_dictionary_install going on from the label, not from the child, on a
\* match
ht_dictionary_install_label(d1, label, p) ==
    IF p.hang
    THEN [d |-> d1, ret |-> -1, hang |-> TRUE]
    ELSE IF p.found
    THEN [d |-> [d1 EXCEPT !.cur_node = label],
          ret |-> -1, hang |-> FALSE]
    ELSE [d |-> [d1 EXCEPT
                   !.root = (p.slot :> [parent |-> d1.prev_node,
                                        label |-> label,
                                        child |-> d1.d_next])
                            @@ d1.root,
                   !.cur_node = label,
                   !.d_next = d1.d_next + 1],
          ret |-> 0, hang |-> FALSE]

\* ht_dictionary_install leaving d_next as it is
ht_dictionary_install_same(d1, label, p) ==
    IF p.hang
    THEN [d |-> d1, ret |-> -1, hang |-> TRUE]
    ELSE IF p.found
    THEN [d |-> [d1 EXCEPT !.cur_node = d1.root[p.slot].child],
          ret |-> -1, hang |-> FALSE]
    ELSE [d |-> [d1 EXCEPT
                   !.root = (p.slot :> [parent |-> d1.prev_node,
                                        label |-> label,
                                        child |-> d1.d_next])
                            @@ d1.root,
                   !.cur_node = label],
          ret |-> 0, hang |-> FALSE]

\* lines 221-231 for the probe result p: follow the child on a match,
\* install (prev_node, label) -> d_next in the free slot otherwise
ht_dictionary_install(d1, label, p) ==
    IF p.hang
    THEN [d |-> d1, ret |-> -1, hang |-> TRUE]
    ELSE IF p.found
    THEN [d |-> [d1 EXCEPT !.cur_node = d1.root[p.slot].child],
          ret |-> -1, hang |-> FALSE]
    ELSE [d |-> [d1 EXCEPT
                   !.root = (p.slot :> [parent |-> d1.prev_node,
                                        label |-> label,
                                        child |-> d1.d_next])
                            @@ d1.root,
                   !.cur_node = label,
                   !.d_next = d1.d_next + 1],
          ret |-> 0, hang |-> FALSE]

\* the search of lines 199-219 in d1, the dictionary with prev_node set
ht_dictionary_search(d1, label) ==
    ht_dictionary_install(d1, label, ht_probe(d1, label, ht_hash(d1, label), 0))

\* ht_dictionary_update: [d: the dictionary after the call, ret: 0 when a
\* new entry was installed and -1 otherwise, hang: the probe never ends]
ht_dictionary_update(d, label) ==
    IF d.cur_node = -1
    THEN [d |-> [d EXCEPT !.prev_node = d.cur_node, !.cur_node = label],
          ret |-> -1, hang |-> FALSE]
    ELSE ht_dictionary_search([d EXCEPT !.prev_node = d.cur_node], label)

\* a reset that clears the slots and keeps d_next
ht_dictionary_reset_slots(d) ==
    [d EXCEPT !.root = << >>, !.cur_node = -1]

ht_dictionary_reset(d) ==
    [d EXCEPT !.root = << >>, !.d_next = DICT_SIZE_MIN, !.cur_node = -1]


\* ------------------------------------------------- decoder dictionary

\* dictionary_new: the scratch buffer is allocated with the size asked for
\* (line 250), the table with the clamped size (lines 254-255); n_bytes and
\* offset are not set: they hold what the allocator left there (n_bytes)
dictionary_new(d_size, n_bytes) ==
    LET size == DICT_LIMIT(d_size)
    IN  [root |-> << >>,
         d_size |-> size,
         d_thr |-> DICT_SIZE_THRESHOLD(size),
         d_min |-> DICT_SIZE_MIN,
         d_next |-> DICT_SIZE_MIN,
         n_bytes |-> n_bytes,
         offset |-> 0,
         bytebuf |-> << >>,
         cap |-> d_size]

\* root[p] as the code reads it
RootAt(d, p) ==
    IF p < DICT_SIZE_MIN THEN [parent |-> 0, label |-> p]
    ELSE IF p \in DOMAIN d.root THEN d.root[p]
    ELSE [parent |-> GarbageParent, label |-> GarbageLabel]

\* buf[i] as the code reads it, buf being the bytes written to bytebuf
BufAt(buf, i) == IF i \in DOMAIN buf THEN buf[i] ELSE GarbageByte

\* bytebuf[i] as the code reads it
ByteAt(d, i) == BufAt(d.bytebuf, i)

\* the loop of lines 280-285: [buf: bytebuf after it, i: i after it,
\* oob: a root index at or above d_size was read]
RECURSIVE dictionary_walk(_, _, _, _, _)
dictionary_walk(d, p, i, buf, oob) ==
    IF p < DICT_SIZE_MIN \/ i = 1
    THEN [buf |-> (i :> Char(RootAt(d, p).label)) @@ buf,
          i |-> i - 1,
          oob |-> oob \/ p >= d.d_size]
    ELSE dictionary_walk(d, RootAt(d, p).parent, i - 1,
                         (i :> Char(RootAt(d, p).label)) @@ buf,
                         oob \/ p >= d.d_size)

\* lines 295-299: link the new entry to code and publish the string
dictionary_update_link(d, code, i, buf, root1, oob) ==
    [d |-> [d EXCEPT
              !.root = (d.d_next :>
                          [parent |-> code,
                           label |-> IF d.d_next \in DOMAIN root1
                                     THEN root1[d.d_next].label
                                     ELSE GarbageLabel]) @@ root1,
              !.bytebuf = buf,
              !.n_bytes = d.d_size - 1 - i,
              !.offset = (d.d_size - 1) + 1 - (d.d_size - 1 - i),
              !.d_next = d.d_next + 1],
     oob |-> oob \/ d.d_next >= d.d_size \/ d.d_size - 1 >= d.cap]

\* the label of the previous entry filled with the last byte of the string
dictionary_update_label_last(d, code, i, buf, oob) ==
    dictionary_update_link(d, code, i, buf,
        IF d.d_next > d.d_min
        THEN ((d.d_next - 1) :>
                 [parent |-> RootAt(d, d.d_next - 1).parent,
                  label |-> SignExt16(BufAt(buf, d.d_size - 1))]) @@ d.root
        ELSE d.root,
        oob)

\* lines 292-293: the label of the previous entry is the first byte of
\* this string
dictionary_update_label(d, code, i, buf, oob) ==
    dictionary_update_link(d, code, i, buf,
        IF d.d_next > d.d_min
        THEN ((d.d_next - 1) :>
                 [parent |-> RootAt(d, d.d_next - 1).parent,
                  label |-> SignExt16(BufAt(buf, i + 1))]) @@ d.root
        ELSE d.root,
        oob)

\* the last byte replaced for every code d_next - 1, inherited or not
dictionary_update_walked_anyepoch(d, code, w) ==
    dictionary_update_label(d, code, w.i,
        IF code = d.d_next - 1
        THEN ((d.d_size - 1) :> BufAt(w.buf, w.i + 1)) @@ w.buf
        ELSE w.buf,
        w.oob)

\* lines 288-289: a code that names the entry still being built ends with
\* its own first byte
dictionary_update_walked(d, code, w) ==
    dictionary_update_label(d, code, w.i,
        IF code >= d.d_min /\ code = d.d_next - 1
        THEN ((d.d_size - 1) :> BufAt(w.buf, w.i + 1)) @@ w.buf
        ELSE w.buf,
        w.oob)

\* dictionary_update: [d: the dictionary after the call, oob: an index
\* outside root or bytebuf was used]
dictionary_update(d, code) ==
    dictionary_update_walked(d, code,
        dictionary_walk(d, code, d.d_size - 1, d.bytebuf, FALSE))

dictionary_reset(d) ==
    [d EXCEPT !.d_min = DICT_SIZE_MIN, !.d_next = DICT_SIZE_MIN]

\* the bytes bytebuf[offset .. offset + n_bytes - 1] handed to fwrite
Pending(d) == [k \in 1..d.n_bytes |-> ByteAt(d, d.offset + k - 1)]

\* ------------------------------------------------------ state machines

\* the test of lines 340 and 358 on the primary d_main: what the call feeds
\* to the secondary, c_in or nothing
fed_secondary(d_main, c_in) ==
    IF d_main.d_next >= d_main.d_thr THEN <<c_in>> ELSE << >>

\* feed c_in to the secondary when the primary is at or above its threshold
\* (lines 340-341 and 358-359): the result of the update, or d_sec untouched
feed_secondary(d_main, d_sec, c_in) ==
    IF fed_secondary(d_main, c_in) # << >>
    THEN ht_dictionary_update(d_sec, c_in)
    ELSE [d |-> d_sec, ret |-> -1, hang |-> FALSE]

\* the result of compress_byte: [o: the compressor after the call, hang: a
\* probe never ended, emit: bitbuf and n_bits were set, swap: the
\* dictionaries swapped, fed: what the call fed to the secondary], f being
\* what feed_secondary returned for the symbol c
compress_byte_fed(o, c, f, emit, swap) ==
    [o |-> [o EXCEPT !.secondary = f.d],
     hang |-> f.hang, emit |-> emit, swap |-> swap,
     fed |-> fed_secondary(o.main, c)]

\* the swap made one entry before the primary is full
compress_byte_swap_early(o, c) ==
    IF o.main.d_next + 1 = o.main.d_size
    THEN [o EXCEPT !.main = [o.secondary EXCEPT !.cur_node = c],
                   !.secondary = ht_dictionary_reset(o.main)]
    ELSE o

\* a swap after which the width of the code is taken from the new primary
compress_byte_swap_width(o, c) ==
    IF o.main.d_next = o.main.d_size
    THEN [o EXCEPT !.main = [o.secondary EXCEPT !.cur_node = c],
                   !.secondary = ht_dictionary_reset(o.main),
                   !.n_bits = bitlen(o.secondary.d_next - 1)]
    ELSE o

\* lines 347-356: the swap when the primary is full
compress_byte_swap(o, c) ==
    IF o.main.d_next = o.main.d_size
    THEN [o EXCEPT !.main = [o.secondary EXCEPT !.cur_node = c],
                   !.secondary = ht_dictionary_reset(o.main)]
    ELSE o

\* lines 358-359 after the swap
compress_byte_swapped(o3, c, swap) ==
    compress_byte_fed(o3, c, feed_secondary(o3.main, o3.secondary, c),
                      TRUE, swap)

\* lines 337-359 for the result u of the primary's update
compress_byte_updated(o, c, start, u) ==
    IF u.hang
    THEN [o |-> [o EXCEPT !.main = u.d],
          hang |-> TRUE, emit |-> start, swap |-> FALSE,
          fed |-> << >>]
    ELSE IF u.ret # 0
    THEN compress_byte_fed([o EXCEPT !.main = u.d], c,
                           feed_secondary(u.d, o.secondary, c),
                           start, FALSE)
    ELSE compress_byte_swapped(
             compress_byte_swap([o EXCEPT !.main = u.d,
                                          !.bitbuf = u.d.prev_node,
                                          !.n_bits = bitlen(u.d.d_next - 1)],
                                c),
             c, u.d.d_next = u.d.d_size)

\* lines 333-359: c is the symbol, EOF mapped to DICT_CODE_EOF
compress_byte_symbol(o, c, start) ==
    compress_byte_updated(o, c, start, ht_dictionary_update(o.main, c))

\* compress_byte setting completed in the call that emits the EOF code
compress_byte_hasty(o, c_in) ==
    IF o.main.cur_node = DICT_CODE_EOF
    THEN [o |-> [o EXCEPT !.bitbuf = o.main.cur_node,
                          !.n_bits = bitlen(o.main.d_next),
                          !.main.cur_node = DICT_CODE_STOP,
                          !.completed = 1],
          hang |-> FALSE, emit |-> TRUE, swap |-> FALSE,
          fed |-> << >>]
    ELSE compress_byte_symbol(
             IF o.main.cur_node = DICT_CODE_START
             THEN [o EXCEPT !.bitbuf = o.main.d_size,
                            !.n_bits = bitlen(DICT_SIZE_MAX),
                            !.main.cur_node = -1]
             ELSE o,
             IF c_in = EOF THEN DICT_CODE_EOF ELSE c_in,
             o.main.cur_node = DICT_CODE_START)

compress_byte(o, c_in) ==
    IF o.main.cur_node = DICT_CODE_EOF
    THEN [o |-> [o EXCEPT !.bitbuf = o.main.cur_node,
                          !.n_bits = bitlen(o.main.d_next),
                          !.main.cur_node = DICT_CODE_STOP],
          hang |-> FALSE, emit |-> TRUE, swap |-> FALSE,
          fed |-> << >>]
    ELSE IF o.main.cur_node = DICT_CODE_STOP
    THEN [o |-> [o EXCEPT !.completed = 1],
          hang |-> FALSE, emit |-> FALSE, swap |-> FALSE,
          fed |-> << >>]
    ELSE compress_byte_symbol(
             IF o.main.cur_node = DICT_CODE_START
             THEN [o EXCEPT !.bitbuf = o.main.d_size,
                            !.n_bits = bitlen(DICT_SIZE_MAX),
                            !.main.cur_node = -1]
             ELSE o,
             IF c_in = EOF THEN DICT_CODE_EOF ELSE c_in,
             o.main.cur_node = DICT_CODE_START)

\* feed the bytes of the decoded string to the secondary, in order
\* (lines 409-412): the result of the last update
RECURSIVE feed_string(_, _, _)
feed_string(u, bytes, k) ==
    IF k > Len(bytes) \/ u.hang
    THEN u
    ELSE feed_string(ht_dictionary_update(u.d, bytes[k]), bytes, k + 1)

\* a rotation that copies nothing
rotation_copy_none(d_main, d_sec) == d_main.root

\* the copy of lines 420-428: every used entry of the secondary, at the
\* index that is its child code
rotation_copy(d_main, d_sec) ==
    [c \in {d_sec.root[s].child : s \in DOMAIN d_sec.root} |->
        LET s == CHOOSE s \in DOMAIN d_sec.root : d_sec.root[s].child = c
        IN  [parent |-> d_sec.root[s].parent, label |-> d_sec.root[s].label]]
    @@ d_main.root

\* a decoder applying the encoder's test d_next >= d_thr
decompress_code_fed_atleast(d) ==
    IF d.d_next >= d.d_thr THEN Pending(d) ELSE << >>

\* the test of line 407 on the updated primary d: the bytes the call feeds
\* to the secondary, the decoded string or nothing
decompress_code_fed(d) ==
    IF d.d_next > d.d_thr THEN Pending(d) ELSE << >>

\* lines 415-430 for the updated primary d and the fed secondary f
decompress_code_rotate(o, d, oob, f) ==
    IF f.hang
    THEN [o |-> [o EXCEPT !.main = d, !.secondary = f.d],
          ret |-> 0, ub |-> oob, hang |-> TRUE, rot |-> FALSE,
          fed |-> decompress_code_fed(d)]
    ELSE IF d.d_next = d.d_size
    THEN [o |-> [o EXCEPT
                   !.main = [dictionary_reset(d) EXCEPT
                               !.d_min = f.d.d_next,
                               !.d_next = f.d.d_next,
                               !.root = rotation_copy(d, f.d)],
                   !.secondary = ht_dictionary_reset(f.d)],
          ret |-> 0,
          ub |-> oob \/ \E s \in DOMAIN f.d.root :
                            f.d.root[s].child >= d.d_size,
          hang |-> FALSE, rot |-> TRUE,
          fed |-> decompress_code_fed(d)]
    ELSE [o |-> [o EXCEPT !.main = d, !.secondary = f.d],
          ret |-> 0, ub |-> oob, hang |-> FALSE, rot |-> FALSE,
          fed |-> decompress_code_fed(d)]

\* lines 404-430 for the result u of dictionary_update
decompress_code_updated(o, u) ==
    decompress_code_rotate(o, u.d, u.oob,
        feed_string([d |-> o.secondary, ret |-> -1, hang |-> FALSE],
                    decompress_code_fed(u.d), 1))

\* decompress_code: [o: the decompressor after the call, ret, ub: memory
\* outside an allocation was used or a wild pointer was freed, hang: a probe
\* never ended, rot: the dictionaries rotated, fed: the bytes fed to the
\* secondary].  n_bytes is what the
\* allocator left in the n_bytes of a dictionary created by this call,
\* nomem which of the allocations of lines 379 and 384 returns NULL: "main",
\* "secondary" or "none".
decompress_code(o, code, n_bytes, nomem) ==
    IF code = DICT_CODE_EOF
    THEN [o |-> [o EXCEPT !.completed = 1],
          ret |-> 0, ub |-> FALSE, hang |-> FALSE, rot |-> FALSE,
          fed |-> << >>]
    ELSE IF code = DICT_CODE_START \/ code = DICT_CODE_SIZE
    THEN [o |-> [o EXCEPT !.main.d_next = DICT_SIZE_MAX, !.n_bits = 0],
          ret |-> 0, ub |-> FALSE, hang |-> FALSE, rot |-> FALSE,
          fed |-> << >>]
    ELSE IF o.main.d_next = DICT_SIZE_MAX /\ nomem = "main"
    THEN [o |-> [o EXCEPT !.main = NULL],
          ret |-> -1, ub |-> FALSE, hang |-> FALSE, rot |-> FALSE,
          fed |-> << >>]
    ELSE IF o.main.d_next = DICT_SIZE_MAX /\ nomem = "secondary"
    THEN [o |-> [o EXCEPT !.main = NULL, !.secondary = NULL],
          ret |-> -1,
          ub |-> o.secondary = WILD, hang |-> FALSE, rot |-> FALSE,
          fed |-> << >>]
    ELSE IF o.main.d_next = DICT_SIZE_MAX
    THEN [o |-> [o EXCEPT !.main = dictionary_new(code, n_bytes),
                          !.secondary = ht_dictionary_new(code),
                          !.bitbuf = 0,
                          !.n_bits = 0],
          ret |-> 0,
          ub |-> o.secondary = WILD, hang |-> FALSE, rot |-> FALSE,
          fed |-> << >>]
    ELSE IF o.secondary = NULL \/ o.main = NULL
    THEN [o |-> o, ret |-> -2, ub |-> FALSE, hang |-> FALSE, rot |-> FALSE,
          fed |-> << >>]
    ELSE IF o.secondary = WILD
    THEN [o |-> o, ret |-> 0, ub |-> TRUE, hang |-> FALSE, rot |-> FALSE,
          fed |-> << >>]
    ELSE decompress_code_updated(o, dictionary_update(o.main, code))

\* lz78_new.  In compress mode dsize is the size asked for.  In decompress
\* mode secondary, bitbuf and n_bits are not set (lines 468-475): heap is
\* what the allocator left in secondary and in the dictionary's n_bytes.
lz78_new(cmode, dsize, heap) ==
    IF cmode = LZ78_MODE_COMPRESS
    THEN LET size == DICT_LIMIT(IF dsize = 0 THEN DICT_SIZE_DEFAULT ELSE dsize)
         IN  [mode |-> cmode,
              completed |-> 0,
              d_size |-> size,
              main |-> [ht_dictionary_new(size) EXCEPT
                           !.cur_node = DICT_CODE_START],
              secondary |-> ht_dictionary_new(size),
              bitbuf |-> DICT_CODE_START,
              n_bits |-> bitlen(DICT_SIZE_MIN)]
    ELSE IF cmode = LZ78_MODE_DECOMPRESS
    THEN [mode |-> cmode,
          completed |-> 0,
          main |-> dictionary_new(DICT_SIZE_MIN, heap.n_bytes),
          secondary |-> heap.secondary,
          bitbuf |-> 0,
          n_bits |-> 0]
    ELSE NULL

\* ------------------------------------------------------------ bit stream

\* the n low bits of v, most significant first
RECURSIVE BitsOf_msb(_, _)
BitsOf_msb(v, n) ==
    IF n = 0 THEN << >> ELSE BitsOf_msb(v \div 2, n - 1) \o <<v % 2>>

\* the n low bits of v, least significant first: what the single-bit path
\* of bit_write (lines 219-239) appends to the stream, with ofs = 0
RECURSIVE BitsOf(_, _)
BitsOf(v, n) == IF n = 0 THEN << >> ELSE <<v % 2>> \o BitsOf(v \div 2, n - 1)

\* the uint32_t that the single-bit path of bit_read (lines 143-164) builds
\* from bits, with ofs = 0 and the destination zeroed
RECURSIVE ValueOf(_)
ValueOf(bits) ==
    IF bits = << >> THEN 0 ELSE Head(bits) + 2 * ValueOf(Tail(bits))

\* bit_close writing only the whole bytes
PadToByte_whole(bits) == SubSeq(bits, 1, 8 * (Len(bits) \div 8))

\* bit_close: the window is rounded up to a whole byte (lines 298-299)
PadToByte(bits) ==
    IF Len(bits) % 8 = 0 THEN bits
    ELSE bits \o [k \in 1..(8 - (Len(bits) % 8)) |-> 0]

\* ------------------------------------------------------------ bit_file
(***************************************************************************)
(* A bit_file is [mode, buff_size, w_start, w_len, buff]: buff maps the    *)
(* index of a bit, counted from the start of the buffer (bit k of byte j   *)
(* is 8 * j + k), to the bit written there; calloc leaves 0 elsewhere.     *)
(* A descriptor takes the bytes there is room for and reports EAGAIN for   *)
(* the rest.                                                               *)
(***************************************************************************)

ACCESS_READ == "O_RDONLY | O_NONBLOCK"
ACCESS_WRITE == "O_WRONLY | O_CREAT | O_TRUNC | O_NONBLOCK"

B_SIZE_DEFAULT == 1048576

\* max_index(): (uint32_t) -1 / 8
max_index == 536870911

\* buff[i] as the code reads it
BitAt(buff, i) == IF i \in DOMAIN buff THEN buff[i] ELSE 0

\* bit k of the uint32_t v
BitOfWord(v, k) == (v \div (2 ^ k)) % 2

\* byte j of the uint32_t v
ByteOfWord(v, j) == (v \div (256 ^ j)) % 256

bit_open(mode, buff_size) ==
    IF mode # ACCESS_READ /\ mode # ACCESS_WRITE THEN NULL
    ELSE IF buff_size % 8 # 0 THEN NULL
    ELSE [mode |-> mode,
          buff_size |-> IF buff_size > max_index THEN max_index
                        ELSE buff_size,
          w_start |-> 0,
          w_len |-> 0,
          buff |-> << >>]

\* bit_flush on a descriptor with room for room bytes: [bf, out: the bits
\* the descriptor took, room: what is left of it, ub: bytes outside the
\* buffer were written out]
bit_flush(bf, room) ==
    [bf |-> [bf EXCEPT
               !.w_start = (bf.w_start + Min(bf.w_len \div 8, room) * 8)
                              % bf.buff_size,
               !.w_len = bf.w_len - Min(bf.w_len \div 8, room) * 8],
     out |-> [k \in 1..(Min(bf.w_len \div 8, room) * 8) |->
                BitAt(bf.buff, 8 * (bf.w_start \div 8) + k - 1)],
     room |-> room - Min(bf.w_len \div 8, room),
     ub |-> 8 * (bf.w_start \div 8) + Min(bf.w_len \div 8, room) * 8
               > bf.buff_size]

\* The loop of bit_write keeps s = [bf, pos, free, mask, base, aligned,
\* n_bits, ret, room, out, ub, done]: mask and base are the bit and the byte
\* of the source the next bit comes from, out the bits the descriptor took.

\* lines 207-218: the memcpy of free \div 8 bytes
bit_write_bytes(s, v) ==
    [s EXCEPT
       !.bf.buff = [i \in (8 * (s.pos \div 8))
                           ..(8 * (s.pos \div 8) + 8 * (s.free \div 8) - 1)
                       |-> BitOfWord(ByteOfWord(v, s.base
                                        + (i - 8 * (s.pos \div 8)) \div 8),
                                     i % 8)] @@ s.bf.buff,
       !.bf.w_len = s.bf.w_len + 8 * (s.free \div 8),
       !.base = s.base + s.free \div 8,
       !.pos = s.pos + 8 * (s.free \div 8),
       !.n_bits = s.n_bits - 8 * (s.free \div 8),
       !.ret = s.ret + 8 * (s.free \div 8),
       !.free = s.free - 8 * (s.free \div 8),
       !.ub = s.ub \/ 8 * (s.pos \div 8) + 8 * (s.free \div 8)
                         > s.bf.buff_size]

\* lines 219-239: one bit.  buff_free_bits is unsigned: below 0 it stands
\* for a value above every n_bits, and the test of line 206 fails either way
bit_write_bit(s, v) ==
    [s EXCEPT
       !.bf.buff = (s.pos :> BitOfWord(ByteOfWord(v, s.base), s.mask))
                   @@ s.bf.buff,
       !.bf.w_len = s.bf.w_len + 1,
       !.mask = IF s.mask = 7 THEN 0 ELSE s.mask + 1,
       !.base = IF s.mask = 7 THEN s.base + 1 ELSE s.base,
       !.aligned = IF s.mask = 7 THEN s.pos % 8 = 0 ELSE s.aligned,
       !.pos = s.pos + 1,
       !.n_bits = s.n_bits - 1,
       !.free = s.free - 1,
       !.ret = s.ret + 1,
       !.ub = s.ub \/ s.pos >= s.bf.buff_size]

\* lines 243-250 for the result f of bit_flush
bit_write_flushed(s, f) ==
    [s EXCEPT
       !.bf = f.bf,
       !.out = s.out \o f.out,
       !.room = f.room,
       !.ub = s.ub \/ f.ub,
       !.done = f.bf.w_len # 0,
       !.pos = f.bf.w_start + f.bf.w_len,
       !.free = IF f.bf.w_len # 0 THEN s.free ELSE f.bf.buff_size]

\* lines 242-251: flush when the buffer is full
bit_write_flush(s) ==
    IF s.bf.w_len = s.bf.buff_size
    THEN bit_write_flushed(s, bit_flush(s.bf, s.room))
    ELSE s

\* lines 204-253: the loop
RECURSIVE bit_write_loop(_, _)
bit_write_loop(s, v) ==
    IF s.n_bits = 0 \/ s.done
    THEN s
    ELSE bit_write_loop(
             bit_write_flush(
                 IF s.aligned /\ s.free > 7 /\ s.n_bits >= s.free
                 THEN bit_write_bytes(s, v)
                 ELSE bit_write_bit(s, v)),
             v)

\* bit_write of n_bits bits of v from its bit ofs on, on a descriptor with
\* room for room bytes: the state the loop ends in, ret being the return
\* value
bit_write_ofs(bf, v, n_bits, ofs, room) ==
    bit_write_loop([bf |-> bf,
                    pos |-> bf.w_start + bf.w_len,
                    free |-> bf.buff_size - bf.w_len,
                    mask |-> ofs,
                    base |-> 0,
                    aligned |-> ofs = 0 /\ (bf.w_start + bf.w_len) % 8 = 0,
                    n_bits |-> n_bits,
                    ret |-> 0,
                    room |-> room,
                    out |-> << >>,
                    ub |-> FALSE,
                    done |-> FALSE],
                   v)

\* bit_write of the n_bits low bits of v, ofs = 0, as lz78_compress calls it
bit_write(bf, v, n_bits, room) == bit_write_ofs(bf, v, n_bits, 0, room)

\* bit_close: the window is rounded up to a whole byte and flushed, the
\* bit_file is freed whatever the flush achieved
bit_close(bf, room) ==
    bit_flush([bf EXCEPT !.w_len = IF bf.w_len % 8 # 0
                                   THEN bf.w_len + 8 - (bf.w_len % 8)
                                   ELSE bf.w_len],
              room)

\* The loop of bit_read keeps s = [bf, n_bits, ret, word, mask, base,
\* aligned, taken, stop]: word maps the index of a bit of the destination to
\* the bit stored there, mask and base are the bit and the byte of the
\* destination the next bit goes to, taken counts the bits read(2) took
\* from data, the bits the descriptor can deliver now.

\* lines 112-127: refill when the window is empty
bit_read_refill(s, data) ==
    IF s.bf.w_len # 0 THEN s
    ELSE IF Min((Len(data) - s.taken) \div 8, s.bf.buff_size \div 8) = 0
    THEN [s EXCEPT !.stop = TRUE]
    ELSE [s EXCEPT
            !.bf.buff =
                [i \in 0..(8 * Min((Len(data) - s.taken) \div 8,
                                   s.bf.buff_size \div 8) - 1)
                    |-> data[s.taken + i + 1]] @@ s.bf.buff,
            !.bf.w_start = 0,
            !.bf.w_len = 8 * Min((Len(data) - s.taken) \div 8,
                                 s.bf.buff_size \div 8),
            !.taken = s.taken + 8 * Min((Len(data) - s.taken) \div 8,
                                        s.bf.buff_size \div 8)]

\* lines 131-141: the memcpy of w_len \div 8 bytes
bit_read_bytes(s) ==
    [s EXCEPT
       !.word = [i \in (8 * s.base)
                       ..(8 * s.base + 8 * (s.bf.w_len \div 8) - 1)
                   |-> BitAt(s.bf.buff,
                             8 * (s.bf.w_start \div 8) + i - 8 * s.base)]
                @@ s.word,
       !.base = s.base + s.bf.w_len \div 8,
       !.bf.w_start = (s.bf.w_start + 8 * (s.bf.w_len \div 8))
                         % s.bf.buff_size,
       !.bf.w_len = s.bf.w_len - 8 * (s.bf.w_len \div 8),
       !.n_bits = s.n_bits - 8 * (s.bf.w_len \div 8),
       !.ret = s.ret + 8 * (s.bf.w_len \div 8)]

\* lines 142-165: one bit
bit_read_bit(s) ==
    [s EXCEPT
       !.word = ((8 * s.base + s.mask) :> BitAt(s.bf.buff, s.bf.w_start))
                @@ s.word,
       !.bf.w_start = (s.bf.w_start + 1) % s.bf.buff_size,
       !.bf.w_len = s.bf.w_len - 1,
       !.n_bits = s.n_bits - 1,
       !.ret = s.ret + 1,
       !.mask = IF s.mask = 7 THEN 0 ELSE s.mask + 1,
       !.base = IF s.mask = 7 THEN s.base + 1 ELSE s.base,
       !.aligned = IF s.mask = 7
                   THEN ((s.bf.w_start + 1) % s.bf.buff_size) % 8 = 0
                   ELSE s.aligned]

\* lines 129-165 once the window was looked at
bit_read_body(s) ==
    IF s.stop THEN s
    ELSE IF s.aligned /\ s.bf.w_len > 7 /\ s.n_bits >= s.bf.w_len
    THEN bit_read_bytes(s)
    ELSE bit_read_bit(s)

\* lines 110-166: the loop
RECURSIVE bit_read_loop(_, _)
bit_read_loop(s, data) ==
    IF s.n_bits = 0 \/ s.stop
    THEN s
    ELSE bit_read_loop(bit_read_body(bit_read_refill(s, data)), data)

\* bit_read of n_bits bits, ofs = 0, into a zeroed uint32_t, from a
\* descriptor that can deliver data now: the state the loop ends in, ret
\* being the return value
bit_read(bf, data, n_bits) ==
    bit_read_loop([bf |-> bf,
                   n_bits |-> n_bits,
                   ret |-> 0,
                   word |-> << >>,
                   mask |-> 0,
                   base |-> 0,
                   aligned |-> bf.w_start % 8 = 0,
                   taken |-> 0,
                   stop |-> FALSE],
                  data)

\* the uint32_t that bit_read filled
WordOf(word) == ValueOf([k \in 1..32 |-> BitAt(word, k - 1)])

\* ------------------------------------------------------------ the system
(***************************************************************************)
(* One compressor and one decompressor joined by the compressed stream.    *)
(* The two sides share nothing but the stream, which is first in, first    *)
(* out, so what each side does depends only on what it reads.  The         *)
(* decompressor takes each field as soon as it is complete; the compressor *)
(* moves when the decompressor waits for bits.  B_SIZE_DEFAULT is 2^20     *)
(* bits and the streams explored are shorter, so under Spec bit_write      *)
(* never fills its buffer: the stream is the bits written, in order, and   *)
(* bit_close pads it.                                                      *)
(***************************************************************************)
VARIABLES
    run,      \* the environment: size asked for, input source, input bound
    enc,      \* the lz78_c instance
    input,    \* the bytes fgetc returned to lz78_compress
    in_eof,   \* fgetc returned EOF
    wire,     \* the bits written to the compressed stream
    c_pc,     \* lz78_compress: "call", "run", "hang", "ret"; "feed" when the
              \* stream is written by something else
    c_ret,    \* what lz78_compress returned
    dec,      \* the lz78_d instance
    rpos,     \* the bits of wire the decompressor has read
    output,   \* the bytes lz78_decompress handed to fwrite
    d_pc,     \* lz78_decompress: "call", "drain", "read", "hang", "ret";
              \* "idle" when there is no decompressor
    d_ret,    \* what lz78_decompress returned
    obs,      \* history: the fields written and read, the last step's
              \* events, swaps and rots the positions of the fields after
              \* whose emission the compressor swapped its dictionaries and
              \* after whose decoding the decompressor rotated its own
    io        \* the streams of the calls in progress and their descriptors,
              \* where a specification follows them: c_in the bytes the FILE
              \* of lz78_compress has read ahead, c_out its bit_file, d_in
              \* the bit_file of lz78_decompress, in_pos the bytes taken from
              \* the compressor's input descriptor, ready the bits of wire
              \* that reached the decompressor's descriptor, calls the calls
              \* made, ub whether bit_write left its buffer, left the bits
              \* bit_close freed unwritten

vars == <<run, enc, input, in_eof, wire, c_pc, c_ret,
          dec, rpos, output, d_pc, d_ret, obs, io>>

\* no stream is followed
NoStreams == [c_in |-> << >>, c_out |-> NULL, d_in |-> NULL,
              in_pos |-> 0, ready |-> 0, calls |-> 0, ub |-> FALSE,
              left |-> 0]

\* the sizes whose inputs are explored exhaustively up to MaxLen
DeepSizes == {262, 263}
\* the sizes explored with the ramp input
RampSizes == {514}
\* the sizes explored up to ShortLen
ClampSizes == {0, 1, 260, 261, 300, 4096, 1048576, 1048577, 2147483647}
\* "ABAABABABAA" with 263 and "ABBAABABABAABAA" with 264: the inputs after
\* which the secondary holds as many entries as the table has room for
OverflowRuns ==
    {[req |-> 263, src |-> "text",
      text |-> <<65, 66, 65, 65, 66, 65, 66, 65, 66, 65, 65>>],
     [req |-> 264, src |-> "text",
      text |-> <<65, 66, 66, 65, 65, 66, 65, 66, 65, 66, 65, 65, 66, 65, 65>>]}

\* a run: the size asked for, where the input comes from (every string over
\* Alphabet, the ramp, the prefixes of a text) and how long it may get
Runs ==
    [req : DeepSizes, src : {"free"}, max : {MaxLen}, text : {<< >>}]
    \cup [req : RampSizes, src : {"ramp"}, max : {RampLen}, text : {<< >>}]
    \cup [req : ClampSizes, src : {"free"}, max : {ShortLen}, text : {<< >>}]
    \cup {[req |-> r.req, src |-> r.src, max |-> Len(r.text),
           text |-> r.text] : r \in OverflowRuns}

\* the inputs of the end-to-end scenarios, all with D = 4096: ten A's, five
\* times AB, the bytes 0..255 in order, and every input over PairAlphabet,
\* up to PairsLen, in which no pair of adjacent bytes occurs twice
PairsLen == 6
PairAlphabet == {65, 66, 67}
TenAs == [k \in 1..10 |-> 65]
FiveABs == [k \in 1..10 |-> IF k % 2 = 1 THEN 65 ELSE 66]
ScenarioRuns ==
    {[req |-> 4096, src |-> "text", max |-> Len(t), text |-> t] :
        t \in {TenAs, FiveABs}}
    \cup [req : {4096}, src : {"ramp"}, max : {256}, text : {<< >>}]
    \cup [req : {4096}, src : {"pairs"}, max : {PairsLen}, text : {<< >>}]

\* what the allocator may leave in a word that is never initialised
HeapWords == {0, 1}
HeapPointers == {NULL, WILD}

\* the words the allocator may leave in the run r: the runs that are called
\* again start from zeroed memory, so that what they do differently from an
\* uninterrupted run comes from the calls alone
Heap(r) == IF r.src = "pipe" THEN {0} ELSE HeapWords

\* which allocation of the size ingestion may fail in the run r: any where
\* the run lets malloc return NULL, none elsewhere
Allocations(r) ==
    IF r.src = "nomem" THEN {"none", "main", "secondary"} ELSE {"none"}

\* no two adjacent bytes of inp are an earlier pair of adjacent bytes
PairsDistinct(inp) ==
    \A i, j \in 1..(Len(inp) - 1) :
        (inp[i] = inp[j] /\ inp[i + 1] = inp[j + 1]) => i = j

\* what fgetc may return after the bytes of inp
NextBytes(r, inp) ==
    {EOF} \cup (IF Len(inp) >= r.max THEN {}
                ELSE IF r.src = "free" THEN Alphabet
                ELSE IF r.src = "ramp" THEN {Len(inp) % 256}
                ELSE IF r.src = "pairs"
                THEN {c \in PairAlphabet : PairsDistinct(Append(inp, c))}
                ELSE {r.text[Len(inp) + 1]})

\* lz78_new for both sides of one of runs
InitOn(runs) ==
    /\ run \in runs
    /\ enc = lz78_new(LZ78_MODE_COMPRESS, run.req, [n_bytes |-> 0, secondary |-> NULL])
    /\ input = << >>
    /\ in_eof = FALSE
    /\ wire = << >>
    /\ c_pc = "run"
    /\ c_ret = LZ78_SUCCESS
    /\ \E n \in HeapWords, p \in HeapPointers :
          dec = lz78_new(LZ78_MODE_DECOMPRESS, 0, [n_bytes |-> n, secondary |-> p])
    /\ rpos = 0
    /\ output = << >>
    /\ d_pc = "drain"
    /\ d_ret = LZ78_SUCCESS
    /\ obs = [fields |-> << >>, reads |-> << >>,
              c_swap |-> FALSE, d_rot |-> FALSE, d_ub |-> FALSE,
              c_fed |-> << << >> >>, d_fed |-> << << >> >>, d_len |-> 0,
              swaps |-> {}, rots |-> {}]
    /\ io = NoStreams

Init == InitOn(Runs)

\* the width of the code that was added last
ReadWidth_last == bitlen(dec.main.d_next - 1)

\* the bits the decompressor asks for next (line 585)
ReadWidth == bitlen(dec.main.d_next)

\* the size was ingested: both dictionaries exist and codes are expected
Sized ==
    /\ dec.secondary # NULL
    /\ dec.secondary # WILD
    /\ dec.main.d_next # DICT_SIZE_MAX

\* the codes decompress_code does not hand to dictionary_update
\* (lines 369-377)
Markers == {DICT_CODE_EOF, DICT_CODE_START, DICT_CODE_SIZE}

\* the decompressor can do nothing until more bits are written
DecoderWaits ==
    \/ d_pc \in {"hang", "ret"}
    \/ d_pc = "read" /\ Len(wire) - rpos < ReadWidth

\* lz78_compress, lines 507-517: write the pending bits
lz78_compress_write ==
    /\ c_pc = "run"
    /\ enc.n_bits > 0
    /\ DecoderWaits
    /\ LET bits == enc.n_bits
       IN  /\ wire' = wire \o BitsOf(enc.bitbuf, bits)
           /\ enc' = [enc EXCEPT !.bitbuf = enc.bitbuf \div (2 ^ bits),
                                 !.n_bits = enc.n_bits - bits]
           /\ obs' = [obs EXCEPT
                        !.fields = Append(@, [val |-> enc.bitbuf,
                                              width |-> bits])]
    /\ UNCHANGED <<run, input, in_eof, c_pc, c_ret,
                   dec, rpos, output, d_pc, d_ret, io>>

\* lines 523-533 for the result r of compress_byte on c_in
lz78_compress_step(c_in, r) ==
    /\ input' = IF c_in = EOF THEN input ELSE Append(input, c_in)
    /\ in_eof' = (c_in = EOF)
    /\ enc' = r.o
    /\ obs' = [obs EXCEPT
                 !.c_swap = r.swap,
                 !.swaps = IF r.swap THEN @ \cup {Len(obs.fields) + 1}
                           ELSE @,
                 !.c_fed = IF r.swap THEN Append(@, r.fed)
                           ELSE [@ EXCEPT ![Len(@)] = @ \o r.fed]]
    /\ c_pc' = IF r.hang THEN "hang"
               ELSE IF r.o.completed = 1 THEN "ret" ELSE "run"
    /\ wire' = IF ~r.hang /\ r.o.completed = 1
               THEN PadToByte(wire) ELSE wire
    /\ c_ret' = LZ78_SUCCESS

\* lz78_compress, lines 519-533: read a byte and compress it
lz78_compress_byte ==
    /\ c_pc = "run"
    /\ enc.n_bits = 0
    /\ DecoderWaits
    /\ \E c_in \in (IF in_eof THEN {EOF} ELSE NextBytes(run, input)) :
          lz78_compress_step(c_in, compress_byte(enc, c_in))
    /\ UNCHANGED <<run, dec, rpos, output, d_pc, d_ret, io>>

\* lz78_decompress, lines 564-581: write the decoded bytes
lz78_decompress_drain ==
    /\ d_pc = "drain"
    /\ output' = output \o Pending(dec.main)
    /\ d_pc' = "read"
    /\ UNCHANGED <<run, enc, input, in_eof, wire, c_pc, c_ret,
                   dec, rpos, d_ret, obs, io>>

\* lines 593-611 for the result r of decompress_code on code
lz78_decompress_step(code, bits, r) ==
    /\ dec' = r.o
    /\ obs' = [obs EXCEPT
                 !.reads = Append(@, [val |-> code, width |-> bits,
                                      next |-> dec.main.d_next,
                                      sized |-> Sized]),
                 !.d_rot = r.rot,
                 !.rots = IF r.rot THEN @ \cup {Len(obs.reads) + 1} ELSE @,
                 !.d_fed = IF r.rot
                           THEN Append([@ EXCEPT ![Len(@)] = @ \o r.fed],
                                       << >>)
                           ELSE [@ EXCEPT ![Len(@)] = @ \o r.fed],
                 !.d_len = IF Sized /\ code \notin Markers
                           THEN @ + r.o.main.n_bytes ELSE @,
                 !.d_ub = @ \/ r.ub]
    /\ d_pc' = IF r.hang THEN "hang"
               ELSE IF r.ret < 0 \/ r.o.completed = 1 THEN "ret"
               ELSE "drain"
    /\ d_ret' = IF r.ret = -1 THEN LZ78_ERROR_DICTIONARY
                ELSE IF r.ret = -2 THEN LZ78_ERROR_DECOMPRESS
                ELSE LZ78_SUCCESS

\* lines 585-611 for the got bits that bit_read returned as code
lz78_decompress_read(code, bits, got) ==
    IF got # bits
    THEN /\ dec' = [dec EXCEPT !.bitbuf = code, !.n_bits = got]
         /\ d_pc' = "ret"
         /\ d_ret' = LZ78_ERROR_EAGAIN
         /\ obs' = obs
    ELSE \E n \in Heap(run), nomem \in Allocations(run) :
            lz78_decompress_step(code, bits,
                decompress_code([dec EXCEPT !.bitbuf = code, !.n_bits = got],
                                code, n, nomem))

\* lz78_decompress, lines 583-611: read a code and decompress it
lz78_decompress_code ==
    /\ d_pc = "read"
    /\ Len(wire) - rpos >= ReadWidth \/ c_pc \notin {"run", "feed"}
    /\ rpos' = rpos + Min(ReadWidth, Len(wire) - rpos)
    /\ lz78_decompress_read(
          ValueOf(SubSeq(wire, rpos + 1,
                         rpos + Min(ReadWidth, Len(wire) - rpos))),
          ReadWidth, Min(ReadWidth, Len(wire) - rpos))
    /\ UNCHANGED <<run, enc, input, in_eof, wire, c_pc, c_ret, output, io>>

Next ==
    \/ lz78_compress_write
    \/ lz78_compress_byte
    \/ lz78_decompress_drain
    \/ lz78_decompress_code

Spec == Init /\ [][Next]_vars

\* the same program on the inputs of the scenarios
InitScenario == InitOn(ScenarioRuns)

SpecScenario == InitScenario /\ [][Next]_vars

\* ----------------------------------------------- the decoder on any stream
(***************************************************************************)
(* The decompressor reading a stream that something other than the        *)
(* compressor writes: each field has the width the decompressor asks for  *)
(* and one of the values of StreamCodes, so that the stream may lack the  *)
(* start marker, announce any size and name codes that were never         *)
(* assigned.                                                               *)
(***************************************************************************)

\* two literals, the EOF code, the size and start markers, and a code above
\* every d_next that a stream of StreamLen fields can reach
StreamCodes == {65, 66, DICT_CODE_EOF, DICT_CODE_SIZE, DICT_CODE_START, 300}

InitStream ==
    /\ run \in [req : {0}, src : {"stream", "nomem"}, max : {StreamLen},
                text : {<< >>}]
    /\ enc = lz78_new(LZ78_MODE_COMPRESS, run.req,
                      [n_bytes |-> 0, secondary |-> NULL])
    /\ input = << >>
    /\ in_eof = FALSE
    /\ wire = << >>
    /\ c_pc = "feed"
    /\ c_ret = LZ78_SUCCESS
    /\ \E n \in HeapWords, p \in HeapPointers :
          dec = lz78_new(LZ78_MODE_DECOMPRESS, 0,
                         [n_bytes |-> n, secondary |-> p])
    /\ rpos = 0
    /\ output = << >>
    /\ d_pc = "drain"
    /\ d_ret = LZ78_SUCCESS
    /\ obs = [fields |-> << >>, reads |-> << >>,
              c_swap |-> FALSE, d_rot |-> FALSE, d_ub |-> FALSE,
              c_fed |-> << << >> >>, d_fed |-> << << >> >>, d_len |-> 0,
              swaps |-> {}, rots |-> {}]
    /\ io = NoStreams

\* the next field of the stream arrives
stream_put ==
    /\ c_pc = "feed"
    /\ d_pc = "read"
    /\ Len(wire) = rpos
    /\ Len(obs.fields) < run.max
    /\ \E v \in StreamCodes :
          /\ wire' = wire \o BitsOf(v, ReadWidth)
          /\ obs' = [obs EXCEPT
                       !.fields = Append(@, [val |-> v, width |-> ReadWidth])]
    /\ UNCHANGED <<run, enc, input, in_eof, c_pc, c_ret,
                   dec, rpos, output, d_pc, d_ret, io>>

NextStream ==
    \/ stream_put
    \/ lz78_decompress_drain
    \/ lz78_decompress_code

SpecStream == InitStream /\ [][NextStream]_vars

\* ------------------------------------------------- calls that are repeated
(***************************************************************************)
(* wrapper_exec calls the codec again for as long as it returns the        *)
(* would-block result.  The runs below follow the streams and the          *)
(* descriptors of each call: the descriptors are nonblocking and keep      *)
(* their position from one call to the next, every call opens its own      *)
(* FILE and its own bit_file on them (lines 495-503 and 551-559).  The     *)
(* FILE of lz78_compress reads ahead as much of the input as there is,     *)
(* the inputs being shorter than a stdio buffer.  In the runs of the       *)
(* compressor the buffer of the bit_file holds BuffBytes bytes, so that    *)
(* the flush that B_SIZE_DEFAULT puts after 2^20 bits happens on the       *)
(* streams explored; the output descriptor takes between 0 and BuffBytes   *)
(* bytes in a step.                                                        *)
(***************************************************************************)

\* the strings over Alphabet of length up to n
Texts(n) == UNION {[1..k -> Alphabet] : k \in 0..n}

RetrySizes == {261, 4096}

\* the instance the caller hands to lz78_compress or lz78_decompress: "own",
\* the one created in the mode of the function, "other", the one created in
\* the other mode, "null", no instance
Arguments == {"own", "other", "null"}

\* the runs on one of texts in which the function is called on one of args
RunsOn(texts, args) ==
    {[req |-> d, src |-> "pipe", max |-> Len(t), text |-> t, arg |-> a] :
        d \in RetrySizes, t \in texts, a \in args}

\* the runs in which it is called, and called again, on its own instance
RetryRuns == RunsOn(Texts(RetryLen), {"own"})

\* the runs in which it is called on any of the three: what the call does
\* with the other two does not depend on the text, and a few texts are
\* enough for the calls on its own instance that the others are told from
CallTexts == {<< >>, <<65>>, <<65, 66>>, <<66, 66>>}
CallRuns == RunsOn(CallTexts, Arguments)

\* the pointer passed for arg, own being the instance of the function's mode
Passed(arg, own, other) ==
    IF arg = "own" THEN own ELSE IF arg = "other" THEN other ELSE NULL

\* lines 489-493 without the test of the mode
lz78_compress_check_anymode(o) ==
    IF o = NULL THEN LZ78_ERROR_INITIALIZATION ELSE LZ78_SUCCESS

\* lz78_compress, lines 489-493: what the call returns before it touches a
\* descriptor, LZ78_SUCCESS standing for "goes on"
lz78_compress_check(o) ==
    IF o = NULL THEN LZ78_ERROR_INITIALIZATION
    ELSE IF o.mode # LZ78_MODE_COMPRESS THEN LZ78_ERROR_MODE
    ELSE LZ78_SUCCESS

\* lz78_decompress, lines 545-549, likewise
lz78_decompress_check(o) ==
    IF o = NULL THEN LZ78_ERROR_INITIALIZATION
    ELSE IF o.mode # LZ78_MODE_DECOMPRESS THEN LZ78_ERROR_MODE
    ELSE LZ78_SUCCESS

\* lz78_compress when nothing blocks (lines 505-534): the instance it leaves,
\* the stream it writes for the bytes of text from the k-th on, after the
\* bits written so far, and the length of the stream before bit_close
RECURSIVE lz78_compress_all(_, _, _, _)
RECURSIVE lz78_compress_next(_, _, _, _)
lz78_compress_all(o, text, k, bits) ==
    IF o.n_bits > 0
    THEN lz78_compress_all([o EXCEPT !.bitbuf = o.bitbuf \div (2 ^ o.n_bits),
                                     !.n_bits = 0],
                           text, k, bits \o BitsOf(o.bitbuf, o.n_bits))
    ELSE lz78_compress_next(
             compress_byte(o, IF k <= Len(text) THEN text[k] ELSE EOF),
             text, k, bits)

\* lines 529-533 for the result r of compress_byte
lz78_compress_next(r, text, k, bits) ==
    IF r.hang THEN [o |-> r.o, wire |-> bits, len |-> Len(bits)]
    ELSE IF r.o.completed = 1
    THEN [o |-> r.o, wire |-> PadToByte(bits), len |-> Len(bits)]
    ELSE lz78_compress_all(r.o, text, k + 1, bits)

\* lz78_decompress when nothing blocks (lines 561-613): the bytes it writes
\* for the bits of the stream after the first pos, following out
RECURSIVE lz78_decompress_all(_, _, _, _)
RECURSIVE lz78_decompress_field(_, _, _, _, _)
RECURSIVE lz78_decompress_next(_, _, _, _)
lz78_decompress_all(o, bits, pos, out) ==
    lz78_decompress_field(o, bits, pos, out \o Pending(o.main),
                          bitlen(o.main.d_next))

\* lines 583-598 for a field of w bits
lz78_decompress_field(o, bits, pos, out, w) ==
    IF Len(bits) - pos < w THEN out
    ELSE lz78_decompress_next(
             decompress_code(
                 [o EXCEPT !.bitbuf = ValueOf(SubSeq(bits, pos + 1, pos + w)),
                           !.n_bits = w],
                 ValueOf(SubSeq(bits, pos + 1, pos + w)), 0, "none"),
             bits, pos + w, out)

\* lines 599-611 for the result r of decompress_code
lz78_decompress_next(r, bits, pos, out) ==
    IF r.hang \/ r.ret < 0 \/ r.o.completed = 1 THEN out
    ELSE lz78_decompress_all(r.o, bits, pos, out)

\* the compressor called in one of runs: it reads run.text from a
\* descriptor that has all of it
InitCompress(runs) ==
    /\ run \in runs
    /\ enc = lz78_new(LZ78_MODE_COMPRESS, run.req,
                      [n_bytes |-> 0, secondary |-> NULL])
    /\ input = << >>
    /\ in_eof = FALSE
    /\ wire = << >>
    /\ c_pc = "call"
    /\ c_ret = LZ78_SUCCESS
    /\ dec = lz78_new(LZ78_MODE_DECOMPRESS, 0,
                      [n_bytes |-> 0, secondary |-> NULL])
    /\ rpos = 0
    /\ output = << >>
    /\ d_pc = "idle"
    /\ d_ret = LZ78_SUCCESS
    /\ obs = [fields |-> << >>, reads |-> << >>,
              c_swap |-> FALSE, d_rot |-> FALSE, d_ub |-> FALSE,
              c_fed |-> << << >> >>, d_fed |-> << << >> >>, d_len |-> 0,
              swaps |-> {}, rots |-> {}]
    /\ io = NoStreams

\* the compressor called again
InitCompressRetry == InitCompress(RetryRuns)

\* lz78_compress, lines 489-503: the tests of the instance, then a FILE and
\* a bit_file for this call
lz78_compress_open ==
    /\ c_pc = "call"
    /\ IF lz78_compress_check(Passed(run.arg, enc, dec)) # LZ78_SUCCESS
       THEN /\ c_pc' = "ret"
            /\ c_ret' = lz78_compress_check(Passed(run.arg, enc, dec))
            /\ UNCHANGED io
       ELSE /\ io' = [io EXCEPT !.c_in = << >>,
                                !.c_out = bit_open(ACCESS_WRITE,
                                                   8 * BuffBytes),
                                !.calls = @ + 1]
            /\ c_pc' = "run"
            /\ UNCHANGED c_ret
    /\ UNCHANGED <<run, enc, input, in_eof, wire,
                   dec, rpos, output, d_pc, d_ret, obs>>

\* lines 509-516 for the state w that bit_write ended in
lz78_compress_written(w) ==
    /\ wire' = wire \o w.out
    /\ io' = [io EXCEPT !.c_out = w.bf, !.ub = @ \/ w.ub]
    /\ enc' = [enc EXCEPT !.bitbuf = enc.bitbuf \div (2 ^ w.ret),
                          !.n_bits = enc.n_bits - w.ret]
    /\ c_pc' = IF enc.n_bits - w.ret > 0 THEN "ret" ELSE "run"
    /\ c_ret' = IF enc.n_bits - w.ret > 0 THEN LZ78_ERROR_EAGAIN
                ELSE LZ78_SUCCESS

\* lz78_compress, lines 507-517, on a descriptor that may block
lz78_compress_bit_write ==
    /\ c_pc = "run"
    /\ io.c_out # NULL
    /\ enc.n_bits > 0
    /\ \E room \in 0..BuffBytes :
          lz78_compress_written(
              bit_write(io.c_out, enc.bitbuf, enc.n_bits, room))
    /\ UNCHANGED <<run, input, in_eof, dec, rpos, output, d_pc, d_ret, obs>>

\* fgetc on a FILE that has buf read ahead, its descriptor being at pos of
\* text, which is all there: [c, buf, pos]
fgetc(buf, text, pos) ==
    IF buf # << >>
    THEN [c |-> Head(buf), buf |-> Tail(buf), pos |-> pos]
    ELSE IF pos < Len(text)
    THEN [c |-> text[pos + 1],
          buf |-> SubSeq(text, pos + 2, Len(text)),
          pos |-> Len(text)]
    ELSE [c |-> EOF, buf |-> << >>, pos |-> pos]

\* lines 520-533 for the result f of fgetc, the result r of compress_byte
\* and the result c of bit_close
lz78_compress_got(f, r, c) ==
    /\ input' = IF f.c = EOF THEN input ELSE Append(input, f.c)
    /\ in_eof' = (f.c = EOF)
    /\ enc' = r.o
    /\ c_pc' = IF r.hang THEN "hang"
               ELSE IF r.o.completed = 1 THEN "ret" ELSE "run"
    /\ c_ret' = LZ78_SUCCESS
    /\ wire' = IF ~r.hang /\ r.o.completed = 1 THEN wire \o c.out ELSE wire
    /\ io' = [io EXCEPT !.c_in = f.buf,
                        !.in_pos = f.pos,
                        !.c_out = IF ~r.hang /\ r.o.completed = 1
                                  THEN NULL ELSE @,
                        !.left = IF ~r.hang /\ r.o.completed = 1
                                 THEN c.bf.w_len ELSE @]

\* lines 519-533 for the result f of fgetc
lz78_compress_fgot(f) ==
    \E room \in 0..BuffBytes :
        lz78_compress_got(f, compress_byte(enc, f.c),
                          bit_close(io.c_out, room))

\* lz78_compress, lines 519-533, on a FILE opened by this call
lz78_compress_fgetc ==
    /\ c_pc = "run"
    /\ io.c_out # NULL
    /\ enc.n_bits = 0
    /\ lz78_compress_fgot(fgetc(io.c_in, run.text, io.in_pos))
    /\ UNCHANGED <<run, dec, rpos, output, d_pc, d_ret, obs>>

\* wrapper_exec, lines 275-279: compress again after the would-block result
wrapper_exec_compress ==
    /\ c_pc = "ret"
    /\ c_ret = LZ78_ERROR_EAGAIN
    /\ io.calls < MaxCalls
    /\ c_pc' = "call"
    /\ UNCHANGED <<run, enc, input, in_eof, wire, c_ret,
                   dec, rpos, output, d_pc, d_ret, obs, io>>

NextCompressRetry ==
    \/ lz78_compress_open
    \/ lz78_compress_bit_write
    \/ lz78_compress_fgetc
    \/ wrapper_exec_compress

SpecCompressRetry == InitCompressRetry /\ [][NextCompressRetry]_vars

\* the decompressor called in one of runs: wire is the stream of run.text,
\* which reaches the descriptor some bytes at a time
InitDecompress(runs) ==
    /\ run \in runs
    /\ enc = lz78_compress_all(lz78_new(LZ78_MODE_COMPRESS, run.req,
                                        [n_bytes |-> 0, secondary |-> NULL]),
                               run.text, 1, << >>).o
    /\ input = run.text
    /\ in_eof = TRUE
    /\ wire = lz78_compress_all(lz78_new(LZ78_MODE_COMPRESS, run.req,
                                         [n_bytes |-> 0, secondary |-> NULL]),
                                run.text, 1, << >>).wire
    /\ c_pc = "ret"
    /\ c_ret = LZ78_SUCCESS
    /\ dec = lz78_new(LZ78_MODE_DECOMPRESS, 0,
                      [n_bytes |-> 0, secondary |-> NULL])
    /\ rpos = 0
    /\ output = << >>
    /\ d_pc = "call"
    /\ d_ret = LZ78_SUCCESS
    /\ obs = [fields |-> << >>, reads |-> << >>,
              c_swap |-> FALSE, d_rot |-> FALSE, d_ub |-> FALSE,
              c_fed |-> << << >> >>, d_fed |-> << << >> >>, d_len |-> 0,
              swaps |-> {}, rots |-> {}]
    /\ io = NoStreams

\* the decompressor called again
InitDecompressRetry == InitDecompress(RetryRuns)

\* more bytes of the stream reach the decompressor's descriptor
pipe_write ==
    /\ d_pc # "idle"
    /\ io.ready < Len(wire)
    /\ \E k \in 1..((Len(wire) - io.ready) \div 8) :
          io' = [io EXCEPT !.ready = @ + 8 * k]
    /\ UNCHANGED <<run, enc, input, in_eof, wire, c_pc, c_ret,
                   dec, rpos, output, d_pc, d_ret, obs>>

\* lz78_decompress, lines 545-559: the tests of the instance, then a
\* bit_file and a FILE for this call
lz78_decompress_open ==
    /\ d_pc = "call"
    /\ IF lz78_decompress_check(Passed(run.arg, dec, enc)) # LZ78_SUCCESS
       THEN /\ d_pc' = "ret"
            /\ d_ret' = lz78_decompress_check(Passed(run.arg, dec, enc))
            /\ UNCHANGED io
       ELSE /\ io' = [io EXCEPT !.d_in = bit_open(ACCESS_READ,
                                                  B_SIZE_DEFAULT),
                                !.calls = @ + 1]
            /\ d_pc' = "drain"
            /\ UNCHANGED d_ret
    /\ UNCHANGED <<run, enc, input, in_eof, wire, c_pc, c_ret,
                   dec, rpos, output, obs>>

\* lines 588-611 for the state r that bit_read ended in
lz78_decompress_bits(r) ==
    /\ io' = [io EXCEPT !.d_in = r.bf]
    /\ rpos' = rpos + r.taken
    /\ lz78_decompress_read(WordOf(r.word), ReadWidth, r.ret)

\* lz78_decompress, lines 583-611, on a descriptor that may block
lz78_decompress_bit_read ==
    /\ d_pc = "read"
    /\ io.d_in # NULL
    /\ lz78_decompress_bits(
          bit_read(io.d_in, SubSeq(wire, rpos + 1, io.ready), ReadWidth))
    /\ UNCHANGED <<run, enc, input, in_eof, wire, c_pc, c_ret, output>>

\* wrapper_exec, lines 281-285: decompress again after the would-block result
wrapper_exec_decompress ==
    /\ d_pc = "ret"
    /\ d_ret = LZ78_ERROR_EAGAIN
    /\ io.calls < MaxCalls
    /\ d_pc' = "call"
    /\ UNCHANGED <<run, enc, input, in_eof, wire, c_pc, c_ret,
                   dec, rpos, output, d_ret, obs, io>>

NextDecompressRetry ==
    \/ pipe_write
    \/ lz78_decompress_open
    \/ lz78_decompress_drain
    \/ lz78_decompress_bit_read
    \/ wrapper_exec_decompress

SpecDecompressRetry == InitDecompressRetry /\ [][NextDecompressRetry]_vars

\* wrapper-level results (wrapper.h)
WRAPPER_SUCCESS == 20
WRAPPER_ERROR_READ == 24
WRAPPER_ERROR_WRITE == 25
WRAPPER_ERROR_EAGAIN == 26
WRAPPER_ERROR_COMPRESS == 27
WRAPPER_ERROR_DECOMPRESS == 28
WRAPPER_ERROR_GENERIC == 29

\* wrapper_return: the wrapper-level result for the result of the codec
wrapper_return(code) ==
    IF code = LZ78_SUCCESS THEN WRAPPER_SUCCESS
    ELSE IF code = LZ78_ERROR_READ THEN WRAPPER_ERROR_READ
    ELSE IF code = LZ78_ERROR_WRITE THEN WRAPPER_ERROR_WRITE
    ELSE IF code = LZ78_ERROR_EAGAIN THEN WRAPPER_ERROR_EAGAIN
    ELSE IF code = LZ78_ERROR_COMPRESS THEN WRAPPER_ERROR_COMPRESS
    ELSE IF code = LZ78_ERROR_DECOMPRESS THEN WRAPPER_ERROR_DECOMPRESS
    ELSE IF code \in {LZ78_ERROR_DICTIONARY, LZ78_ERROR_INITIALIZATION,
                      LZ78_ERROR_MODE}
    THEN WRAPPER_ERROR_GENERIC
    ELSE code

\* main, lines 103-111: the exit status of the program whose last call of
\* lz78_compress or lz78_decompress returned ret, which is what wrapper_exec
\* returned
main(ret) == wrapper_return(ret) % 256

\* ------------------------------------------------- the bit stream alone
(***************************************************************************)
(* A writer makes up to MaxWrites calls of bit_write on a bit_file of      *)
(* BitsBuff bytes whose descriptor takes every byte, then bit_close; a     *)
(* reader then makes bit_read calls of the same widths on the bytes        *)
(* produced.  obs.writes keeps the arguments of the calls, obs.reads what  *)
(* each bit_read returned and stored.                                      *)
(***************************************************************************)
MaxWrites == 2
MaxWidth == 17
BitsBuff == 2

\* the sources written from: 0xAAAAAA and 0x333333
BitPatterns == {11184810, 3355443}

\* a descriptor that never blocks takes any number of bytes
Blocking == 64

InitBits ==
    /\ run = [req |-> 0, src |-> "bits", max |-> MaxWrites, text |-> << >>]
    /\ enc = NULL
    /\ input = << >>
    /\ in_eof = FALSE
    /\ wire = << >>
    /\ c_pc = "write"
    /\ c_ret = 0
    /\ dec = NULL
    /\ rpos = 0
    /\ output = << >>
    /\ d_pc = "idle"
    /\ d_ret = 0
    /\ obs = [writes |-> << >>, reads |-> << >>]
    /\ io = [NoStreams EXCEPT !.c_out = bit_open(ACCESS_WRITE, 8 * BitsBuff)]

\* the caller's side of a bit_write that ended in the state w
bit_write_done(w, v, n, ofs) ==
    /\ wire' = wire \o w.out
    /\ io' = [io EXCEPT !.c_out = w.bf, !.ub = @ \/ w.ub]
    /\ c_ret' = w.ret
    /\ obs' = [obs EXCEPT !.writes =
                   Append(@, [v |-> v, n_bits |-> n, ofs |-> ofs])]

\* one call of bit_write
bit_write_call ==
    /\ c_pc = "write"
    /\ Len(obs.writes) < MaxWrites
    /\ \E v \in BitPatterns, n \in 1..MaxWidth, ofs \in 0..7 :
          bit_write_done(bit_write_ofs(io.c_out, v, n, ofs, Blocking),
                         v, n, ofs)
    /\ UNCHANGED <<run, enc, input, in_eof, c_pc,
                   dec, rpos, output, d_pc, d_ret>>

\* bit_close for the result f of its flush, then bit_open for reading
bit_close_done(f) ==
    /\ wire' = wire \o f.out
    /\ io' = [io EXCEPT !.c_out = NULL,
                        !.left = f.bf.w_len,
                        !.d_in = bit_open(ACCESS_READ, 8 * BitsBuff)]

bit_close_call ==
    /\ c_pc = "write"
    /\ obs.writes # << >>
    /\ bit_close_done(bit_close(io.c_out, Blocking))
    /\ c_pc' = "ret"
    /\ d_pc' = "read"
    /\ UNCHANGED <<run, enc, input, in_eof, c_ret,
                   dec, rpos, output, d_ret, obs>>

\* the caller's side of a bit_read of n bits that ended in the state r
bit_read_done(r, n) ==
    /\ io' = [io EXCEPT !.d_in = r.bf]
    /\ rpos' = rpos + r.taken
    /\ d_ret' = r.ret
    /\ obs' = [obs EXCEPT !.reads =
                   Append(@, [ret |-> r.ret,
                              bits |-> [i \in 1..n |-> BitAt(r.word, i - 1)]])]

\* one call of bit_read, as wide as the write at the same position
bit_read_call ==
    /\ d_pc = "read"
    /\ Len(obs.reads) < Len(obs.writes)
    /\ bit_read_done(bit_read(io.d_in, SubSeq(wire, rpos + 1, Len(wire)),
                              obs.writes[Len(obs.reads) + 1].n_bits),
                     obs.writes[Len(obs.reads) + 1].n_bits)
    /\ UNCHANGED <<run, enc, input, in_eof, wire, c_pc, c_ret,
                   dec, output, d_pc>>

NextBits ==
    \/ bit_write_call
    \/ bit_close_call
    \/ bit_read_call

SpecBits == InitBits /\ [][NextBits]_vars

\* ------------------------------------- the bit stream on a full descriptor
(***************************************************************************)
(* The writer alone, on a descriptor opened with O_NONBLOCK that takes     *)
(* some, all or none of the bytes of a call and reports EAGAIN for the     *)
(* rest.  obs.writes keeps the arguments and the result of each bit_write, *)
(* obs.accepted the bits that the calls reported as written, wire the bits *)
(* the descriptor took, io.left the bits bit_close left in the window.     *)
(***************************************************************************)

\* the bytes the descriptor has room for during one call
Rooms == 0..BitsBuff

InitBlocking ==
    /\ run = [req |-> 0, src |-> "bits", max |-> MaxWrites, text |-> << >>]
    /\ enc = NULL
    /\ input = << >>
    /\ in_eof = FALSE
    /\ wire = << >>
    /\ c_pc = "write"
    /\ c_ret = 0
    /\ dec = NULL
    /\ rpos = 0
    /\ output = << >>
    /\ d_pc = "idle"
    /\ d_ret = 0
    /\ obs = [writes |-> << >>, reads |-> << >>, accepted |-> << >>]
    /\ io = [NoStreams EXCEPT !.c_out = bit_open(ACCESS_WRITE, 8 * BitsBuff)]

\* the caller's side of a bit_write that ended in the state w
bit_write_some_done(w, v, n, ofs) ==
    /\ wire' = wire \o w.out
    /\ io' = [io EXCEPT !.c_out = w.bf, !.ub = @ \/ w.ub]
    /\ c_ret' = w.ret
    /\ obs' = [obs EXCEPT
                 !.writes = Append(@, [v |-> v, n_bits |-> n, ofs |-> ofs,
                                       ret |-> w.ret]),
                 !.accepted = @ \o [i \in 1..w.ret |->
                                       BitOfWord(v, ofs + i - 1)]]

\* one call of bit_write on a descriptor with room for some bytes
bit_write_some ==
    /\ c_pc = "write"
    /\ Len(obs.writes) < MaxWrites
    /\ \E v \in BitPatterns, n \in 1..MaxWidth, ofs \in 0..7,
          room \in Rooms :
          bit_write_some_done(bit_write_ofs(io.c_out, v, n, ofs, room),
                              v, n, ofs)
    /\ UNCHANGED <<run, enc, input, in_eof, c_pc,
                   dec, rpos, output, d_pc, d_ret>>

\* bit_close for the result f of its flush: the bit_file is freed
bit_close_some_done(f) ==
    /\ wire' = wire \o f.out
    /\ io' = [io EXCEPT !.c_out = NULL,
                        !.left = f.bf.w_len,
                        !.ub = @ \/ f.ub]

\* bit_close on a descriptor with room for some bytes
bit_close_some ==
    /\ c_pc = "write"
    /\ obs.writes # << >>
    /\ \E room \in Rooms : bit_close_some_done(bit_close(io.c_out, room))
    /\ c_pc' = "ret"
    /\ UNCHANGED <<run, enc, input, in_eof, c_ret,
                   dec, rpos, output, d_pc, d_ret, obs>>

NextBlocking ==
    \/ bit_write_some
    \/ bit_close_some

SpecBlocking == InitBlocking /\ [][NextBlocking]_vars

\* either function called, on any instance
InitCall == InitCompress(CallRuns) \/ InitDecompress(CallRuns)

NextCall == NextCompressRetry \/ NextDecompressRetry

SpecCall == InitCall /\ [][NextCall]_vars

\* ------------------------------------------------------------ properties

Last(seq) == seq[Len(seq)]

\* both lz78_compress and lz78_decompress returned
BothReturned == c_pc = "ret" /\ d_pc = "ret"

\* C1: for every input S and every size D in DICT_SIZE_MIN+1..DICT_SIZE_MAX,
\* decoding the stream encoded for (S, D) completes successfully and the
\* output is exactly S
RoundTrip ==
    (BothReturned /\ run.req >= DICT_SIZE_MIN + 1 /\ run.req <= DICT_SIZE_MAX)
    => /\ d_ret = LZ78_SUCCESS
       /\ dec.completed = 1
       /\ output = input

\* C2: the k-th field the decoder reads is as wide as the k-th field the
\* encoder wrote, and that width is bitlen of the decoder's main d_next at
\* the moment of the read, for every k
WidthAgreement ==
    \A k \in 1..Len(obs.reads) :
        /\ k <= Len(obs.fields)
        /\ obs.reads[k].width = obs.fields[k].width
        /\ obs.reads[k].width = bitlen(obs.reads[k].next)

\* the decoder read the whole stream of a run in which the width grew to 10
\* bits and fell back to 9 at a rotation
WidthAgreementWitness ==
    /\ dec.completed = 1
    /\ \E k \in 2..Len(obs.reads) :
          /\ obs.reads[k - 1].width = 10
          /\ obs.reads[k].width = 9
          /\ obs.reads[k].next < obs.reads[k - 1].next

\* the entries of the encoder's primary, as (parent, label) by child code
PrimaryEntries ==
    {[code |-> enc.main.root[s].child,
      parent |-> enc.main.root[s].parent,
      label |-> enc.main.root[s].label] : s \in DOMAIN enc.main.root}

\* the entries of the decoder's main for the codes DICT_SIZE_MIN..d_next-1
MainEntries ==
    {[code |-> c,
      parent |-> RootAt(dec.main, c).parent,
      label |-> RootAt(dec.main, c).label] :
        c \in DICT_SIZE_MIN..(dec.main.d_next - 1)}

\* decompress_code has just rotated the dictionaries: the decoder has not
\* moved since, and the encoder waits for it
JustRotated == obs.d_rot /\ d_pc = "drain"

\* C3: immediately after a rotation the decoder's main d_next is the
\* encoder's new primary d_next, and main.root holds (parent, label) at code
\* c exactly when the new primary has a used entry (parent, label, c)
RotationConsistency ==
    JustRotated =>
        /\ obs.c_swap
        /\ dec.main.d_next = enc.main.d_next
        /\ MainEntries = PrimaryEntries

\* a rotation that carried at least two entries over
RotationWitness ==
    /\ JustRotated
    /\ dec.main.d_next >= DICT_SIZE_MIN + 2
    /\ Cardinality(PrimaryEntries) >= 2

\* the positions of the EOF code among the fields written
EofFields == {k \in 1..Len(obs.fields) : obs.fields[k].val = DICT_CODE_EOF}

\* the encoder's side of C6, as a predicate on the state
EncoderEof ==
    /\ Cardinality(EofFields) <= 1
    /\ EofFields # {} => /\ EofFields = {Len(obs.fields)}
                         /\ in_eof
                         /\ enc.n_bits = 0
                         /\ enc.main.cur_node = DICT_CODE_STOP
    /\ (in_eof /\ c_pc # "hang")
          => enc.main.cur_node \in {DICT_CODE_EOF, DICT_CODE_STOP}
    /\ (enc.n_bits > 0 /\ enc.bitbuf = DICT_CODE_EOF)
          => /\ enc.completed = 0
             /\ enc.main.cur_node = DICT_CODE_STOP
             /\ EofFields = {}
    /\ enc.completed = 1 => /\ EofFields = {Len(obs.fields)}
                            /\ enc.n_bits = 0
    /\ c_pc = "ret" => enc.completed = 1

\* the decoder's side of C6, as a predicate on the state
DecoderEof ==
    dec.completed = 1
        <=> (obs.reads # << >> /\ Last(obs.reads).val = DICT_CODE_EOF)

EmptyInput ==
    (BothReturned /\ input = << >>)
    => /\ d_ret = LZ78_SUCCESS
       /\ dec.completed = 1
       /\ output = << >>

\* C8 as stated: the first bitlen(DICT_SIZE_MAX) bits of the stream are the
\* dictionary size, least significant bit first
SizeFirst ==
    Len(wire) >= bitlen(DICT_SIZE_MAX)
    => ValueOf(SubSeq(wire, 1, bitlen(DICT_SIZE_MAX))) = enc.d_size

\* a step that writes to the stream either appends one field, least
\* significant bit first and directly after what was written before, or
\* closes the stream by filling its last byte
StreamStep ==
    \/ wire' = wire
    \/ /\ Len(obs'.fields) = Len(obs.fields) + 1
       /\ SubSeq(obs'.fields, 1, Len(obs.fields)) = obs.fields
       /\ Len(wire') = Len(wire) + Last(obs'.fields).width
       /\ SubSeq(wire', 1, Len(wire)) = wire
       /\ ValueOf(SubSeq(wire', Len(wire) + 1, Len(wire')))
             = Last(obs'.fields).val
    \/ /\ c_pc' = "ret"
       /\ obs'.fields = obs.fields
       /\ Len(wire') = 8 * ((Len(wire) + 7) \div 8)
       /\ SubSeq(wire', 1, Len(wire)) = wire

\* what C8 says of the fields written so far
StreamFields ==
    /\ Len(obs.fields) >= 1
          => obs.fields[1] = [val |-> DICT_CODE_START, width |-> 9]
    /\ Len(obs.fields) >= 2
          => obs.fields[2] = [val |-> enc.d_size, width |-> 21]
    /\ \A k \in 3..Len(obs.fields) :
          \/ obs.fields[k].val < 256
          \/ obs.fields[k].val >= DICT_SIZE_MIN
          \/ obs.fields[k].val = DICT_CODE_EOF /\ k = Len(obs.fields)
    /\ Len(obs.fields) = 0 => wire = << >>

\* C8: the first field of the stream is the start marker DICT_CODE_START in
\* bitlen(DICT_SIZE_MIN) = 9 bits, the second is the dictionary size in
\* bitlen(DICT_SIZE_MAX) = 21 bits, every field is written least significant
\* bit first and the codes follow the size directly
WireLayout == []StreamFields /\ [][StreamStep]_vars

\* a finished stream with the marker, the size, two codes and the EOF code
WireLayoutWitness ==
    /\ c_pc = "ret"
    /\ Len(obs.fields) >= 5
    /\ obs.fields[3].val < 256
    /\ Last(obs.fields).val = DICT_CODE_EOF

\* s is the beginning of t
IsPrefix(s, t) == Len(s) <= Len(t) /\ SubSeq(t, 1, Len(s)) = s

\* what lz78_decompress writes for the stream when nothing blocks
UninterruptedOutput ==
    lz78_decompress_all(lz78_new(LZ78_MODE_DECOMPRESS, 0,
                                 [n_bytes |-> 0, secondary |-> NULL]),
                        wire, 0, << >>)

\* C4: when lz78_decompress returned the would-block result because the bit
\* reader delivered fewer bits than the code width and is called again on
\* the same instance, the bytes written over all calls are those of an
\* uninterrupted run: no call fails, at any moment what was written is a
\* beginning of that output, and it is all of it once a call returned
\* success
DecompressResumes ==
    /\ d_pc = "ret" => d_ret \in {LZ78_SUCCESS, LZ78_ERROR_EAGAIN}
    /\ IsPrefix(output, UninterruptedOutput)
    /\ (d_pc = "ret" /\ d_ret = LZ78_SUCCESS) => output = UninterruptedOutput

\* lz78_compress on the run when nothing blocks
Uninterrupted ==
    lz78_compress_all(lz78_new(LZ78_MODE_COMPRESS, run.req,
                               [n_bytes |-> 0, secondary |-> NULL]),
                      run.text, 1, << >>)

\* the bits delivered are the first bits of the stream ref, what bit_close
\* fills the last byte with apart
Delivered(ref) ==
    /\ Len(wire) <= Len(ref.wire)
    /\ \A k \in 1..Min(Len(wire), ref.len) : wire[k] = ref.wire[k]

\* C5: when lz78_compress returned the would-block result because the bit
\* writer could not flush and is called again on the same instance, the bits
\* delivered to the output over all calls are those of an uninterrupted
\* run, in order: at any moment the first bits of its stream, and all of it
\* once a call returned success and bit_close wrote what it held
CompressResumes ==
    /\ Delivered(Uninterrupted)
    /\ (c_pc = "ret" /\ c_ret = LZ78_SUCCESS /\ io.left = 0)
          => Len(wire) = Len(Uninterrupted.wire)

Unresolvable(r) ==
    /\ r.sized
    /\ r.val >= r.next
    /\ r.val \notin {DICT_CODE_EOF, DICT_CODE_SIZE, DICT_CODE_START}

\* the hash dictionaries that exist: the compressor's two and the
\* decompressor's secondary once it was allocated
HashDictionaries ==
    {enc.main, enc.secondary}
    \cup (IF dec.secondary \in {NULL, WILD} THEN {} ELSE {dec.secondary})

\* C18: in every reachable state every hash dictionary, primary or
\* secondary, of the compressor or of the decompressor, has d_next at most
\* d_size and an unused slot, and no probe of ht_dictionary_update runs for
\* ever
HashNeverFull ==
    /\ \A d \in HashDictionaries :
          /\ d.d_next <= d.d_size
          /\ Cardinality(DOMAIN d.root) < d.d_size
    /\ c_pc # "hang"
    /\ d_pc # "hang"

\* C19: at every rotation of the decompressor every child code in a used
\* slot of the secondary is below main.d_size, so that every write to
\* main.root[child] is inside the table, and the d_next adopted is below
\* d_size
RotationInBounds ==
    [][(d_pc = "read" /\ obs'.d_rot)
          => /\ \A s \in DOMAIN dec.secondary.root :
                   dec.secondary.root[s].child < dec.main.d_size
             /\ \A c \in DOMAIN dec'.main.root : c < dec'.main.d_size
             /\ dec'.main.d_next < dec'.main.d_size]_vars

\* C20: the compressor swaps its dictionaries right after emitting the k-th
\* code exactly when the decompressor rotates right after decoding the k-th
\* code, which is when the primary's d_next has reached d_size, and both
\* sides make the same number of rotations
RotationSamePoint ==
    /\ \A k \in 1..Len(obs.reads) : k \in obs.rots <=> k \in obs.swaps
    /\ \A k \in obs.rots : obs.reads[k].next + 1 = enc.main.d_size
    /\ BothReturned => Cardinality(obs.rots) = Cardinality(obs.swaps)

\* both sides returned after two rotations each
RotationSamePointWitness ==
    /\ BothReturned
    /\ Cardinality(obs.swaps) >= 2
    /\ obs.rots = obs.swaps

\* the codes the compressor wrote after the start marker and the size
Codes == [k \in 1..(Len(obs.fields) - 2) |-> obs.fields[k + 2].val]

\* the parent of the code c in the compressor's primary
ParentOf(c) == (CHOOSE e \in PrimaryEntries : e.code = c).parent

\* the bytes the code c stands for: one for a literal, one more than its
\* parent for an entry of the primary
RECURSIVE CodeLen(_)
CodeLen(c) == IF c < DICT_SIZE_MIN THEN 1 ELSE 1 + CodeLen(ParentOf(c))

\* the bytes of input that the first k codes stand for
RECURSIVE Covered(_)
Covered(k) == IF k = 0 THEN 0 ELSE Covered(k - 1) + CodeLen(Codes[k])

\* the code that the n-th byte of the input was encoded in
CodeOfByte(n) ==
    Codes[CHOOSE k \in 1..Len(Codes) : Covered(k - 1) < n /\ n <= Covered(k)]

\* lz78_compress returned, having read all of text
Encoded(text) == c_pc = "ret" /\ input = text /\ run.req = 4096

\* C15 as stated: when "ABABABABAB" is encoded with D = 4096, the third
\* input byte, the second 'A', is encoded as the literal code 65
SecondALiteral == Encoded(FiveABs) => CodeOfByte(3) = 65

\* C15: when "ABABABABAB" is encoded with D = 4096, the first 'A' and the
\* first 'B' are encoded as the literal codes 65 and 66, and the second 'A'
\* (the third input byte) is encoded, with the 'B' that follows it, in the
\* dictionary code 260, the entry (65, 'B') installed when the first code
\* was emitted
SecondAInEntry ==
    Encoded(FiveABs) =>
        /\ CodeOfByte(1) = 65
        /\ CodeOfByte(2) = 66
        /\ CodeOfByte(3) = DICT_SIZE_MIN
        /\ CodeOfByte(4) = DICT_SIZE_MIN
        /\ [code |-> DICT_SIZE_MIN, parent |-> 65, label |-> 66]
              \in PrimaryEntries

\* "ABABABABAB" was encoded and its stream read back
SecondAWitness ==
    /\ Encoded(FiveABs)
    /\ Codes = <<65, 66, 260, 262, 261, 66, DICT_CODE_EOF>>
    /\ d_pc = "ret"

\* C16: with D = 4096, for an input in which no pair of adjacent bytes
\* repeats an earlier pair, the compressor emits one literal code per input
\* byte, equal to that byte and in input order, then the EOF code and
\* nothing else
LiteralPerByte ==
    (c_pc = "ret" /\ run.req = 4096 /\ PairsDistinct(input))
        => Codes = Append(input, DICT_CODE_EOF)

\* the 256 bytes 0, 1, ..., 255 were encoded
LiteralPerByteWitness ==
    /\ c_pc = "ret"
    /\ run.src = "ramp"
    /\ Len(input) = 256
    /\ Len(Codes) = 257

\* C17 as stated: the stream of ten A's with D = 4096 is shorter than 10
\* bytes
TenAsShorter == Encoded(TenAs) => Len(wire) < 8 * 10

\* C17: encoding ten A's with D = 4096 produces a stream of exactly 10
\* bytes: the start marker, the size, the codes 65, 260, 261, 262 and the
\* EOF code, 75 bits in all, and 5 bits of padding
TenAsSameLength ==
    Encoded(TenAs) =>
        /\ Len(wire) = 8 * 10
        /\ Codes = <<65, 260, 261, 262, DICT_CODE_EOF>>
        /\ \A k \in 76..80 : wire[k] = 0

\* ten A's were encoded
TenAsWitness == Encoded(TenAs) /\ Len(obs.fields) = 7

\* the bits the k-th bit_write was given
Written(k) ==
    [i \in 1..obs.writes[k].n_bits |->
        BitOfWord(obs.writes[k].v, obs.writes[k].ofs + i - 1)]

\* C14: after any bit_write calls, of any widths and source offsets 0..7,
\* some of them filling the buffer, and bit_close, bit_read calls of the
\* same widths on the bytes produced return the bits written, in order
BitRoundTrip ==
    \A k \in 1..Len(obs.reads) :
        /\ obs.reads[k].ret = obs.writes[k].n_bits
        /\ obs.reads[k].bits = Written(k)

\* C13: the program exits with status 0 when the compression or the
\* decompression succeeded, and with another status when it failed
ExitCode ==
    /\ (c_pc = "ret" /\ c_ret # LZ78_ERROR_EAGAIN)
          => (main(c_ret) = 0 <=> c_ret = LZ78_SUCCESS)
    /\ (d_pc = "ret" /\ d_ret # LZ78_ERROR_EAGAIN)
          => (main(d_ret) = 0 <=> d_ret = LZ78_SUCCESS)

\* the step in which lz78_compress, called on the instance arg, returns at
\* once
CompressRefused(arg) == c_pc = "call" /\ run.arg = arg

\* the same for lz78_decompress
DecompressRefused(arg) == d_pc = "call" /\ d_pc' # "call" /\ run.arg = arg

\* nothing was read, nothing written, and both instances are as they were
Untouched == UNCHANGED <<enc, dec, input, in_eof, wire, rpos, output, io>>

\* C12: lz78_compress on an instance created in decompress mode and
\* lz78_decompress on an instance created in compress mode return
\* LZ78_ERROR_MODE, either on a null instance returns
\* LZ78_ERROR_INITIALIZATION, and the call reads no input, writes no output
\* and leaves the codec state as it was
ModeMisuse ==
    [][/\ CompressRefused("other")
             => (c_pc' = "ret" /\ c_ret' = LZ78_ERROR_MODE /\ Untouched)
       /\ CompressRefused("null")
             => (c_pc' = "ret" /\ c_ret' = LZ78_ERROR_INITIALIZATION
                 /\ Untouched)
       /\ DecompressRefused("other")
             => (d_pc' = "ret" /\ d_ret' = LZ78_ERROR_MODE /\ Untouched)
       /\ DecompressRefused("null")
             => (d_pc' = "ret" /\ d_ret' = LZ78_ERROR_INITIALIZATION
                 /\ Untouched)]_vars

\* lz78_compress has returned the Mode error for an instance created in
\* decompress mode
ModeMisuseWitness ==
    /\ run.arg = "other"
    /\ c_pc = "ret"
    /\ c_ret = LZ78_ERROR_MODE
    /\ dec.mode = LZ78_MODE_DECOMPRESS
    /\ io = NoStreams

\* C11: when decompress_code reports the Dictionary error because the
\* allocation of the main or of the secondary dictionary failed during the
\* size ingestion, the decoder's dictionaries after the call are those
\* before the call
NoPartialMutation ==
    [][(d_pc = "read" /\ d_pc' = "ret" /\ d_ret' = LZ78_ERROR_DICTIONARY)
          => (dec'.main = dec.main /\ dec'.secondary = dec.secondary)]_vars

\* C10: when the decoder, after the size was ingested, is given a code at or
\* above main.d_next, lz78_decompress returns LZ78_ERROR_DECOMPRESS
MalformedRejected ==
    (obs.reads # << >> /\ Unresolvable(Last(obs.reads)))
    => (d_pc = "ret" /\ d_ret = LZ78_ERROR_DECOMPRESS)

\* ------------------------------------------------- secondary feeding

\* a fed symbol that is a byte of the input, not the end symbol of line 336
IsInputByte(b) == b # DICT_CODE_EOF

InputBytes(fed) == SelectSeq(fed, IsInputByte)

\* C21: between two consecutive rotations the input bytes the encoder feeds
\* to its secondary are the bytes the decoder feeds to its secondary, in the
\* same order: obs.c_fed and obs.d_fed hold, rotation after rotation, what
\* each side fed, and the decoder trails the encoder by at most the phrase
\* still being matched
FeedingAgrees ==
    /\ Len(obs.d_fed) <= Len(obs.c_fed)
    /\ \A e \in 1..Len(obs.d_fed) :
          IsPrefix(obs.d_fed[e], InputBytes(obs.c_fed[e]))
    /\ \A e \in 1..(Len(obs.d_fed) - 1) :
          obs.d_fed[e] = InputBytes(obs.c_fed[e])
    /\ BothReturned =>
          /\ Len(obs.d_fed) = Len(obs.c_fed)
          /\ Last(obs.d_fed) = InputBytes(Last(obs.c_fed))

\* both sides returned after a rotation, the first bytes of the input having
\* been fed by neither side and later ones by both
FeedingWitness ==
    /\ BothReturned
    /\ Len(obs.d_fed) >= 2
    /\ obs.d_fed[1] # << >>
    /\ obs.d_fed[1] = InputBytes(obs.c_fed[1])
    /\ Len(obs.d_fed[1]) + Len(obs.d_fed[2]) < Len(input)

\* ------------------------------------------------- dictionary_update

\* the string of the entry p of the decoder's dictionary d: the string of
\* its parent followed by its label, a literal being its own string; n
\* bounds the chain
RECURSIVE StringOf(_, _, _)
StringOf(d, p, n) ==
    IF p < DICT_SIZE_MIN \/ n = 0
    THEN <<Char(RootAt(d, p).label)>>
    ELSE Append(StringOf(d, RootAt(d, p).parent, n - 1),
                Char(RootAt(d, p).label))

\* the string of the parent of p followed by that string's first byte
StringOfPending(d, p) ==
    Append(StringOf(d, RootAt(d, p).parent, d.d_size),
           StringOf(d, RootAt(d, p).parent, d.d_size)[1])

\* lz78_decompress read a code that decompress_code hands to
\* dictionary_update
DecodesCode ==
    /\ d_pc = "read"
    /\ d_pc' = "drain"
    /\ Sized
    /\ Last(obs'.reads).val \notin Markers

\* the bytes of the input that follow the strings decoded so far, as many as
\* the string just published
PhraseMatched ==
    SubSeq(input, obs.d_len + 1, obs.d_len + dec'.main.n_bytes)

\* C22: a code naming the entry still being installed (code = d_next - 1,
\* created in the current epoch, code >= d_min) is published as the string
\* of that entry's parent followed by that string's first byte, which is
\* the phrase the encoder matched; a code d_next - 1 inherited from the
\* secondary (code < d_min) is published as the complete entry's string
KwKwK ==
    [][(DecodesCode /\ Last(obs'.reads).val = dec.main.d_next - 1)
       => /\ Pending(dec'.main) =
               IF Last(obs'.reads).val >= dec.main.d_min
               THEN StringOfPending(dec.main, Last(obs'.reads).val)
               ELSE StringOf(dec.main, Last(obs'.reads).val, dec.main.d_size)
          /\ Pending(dec'.main) = PhraseMatched]_vars

\* the decoder read the code of the entry it was installing, and in the
\* same run, right after a rotation, the last code inherited from the
\* secondary; the string on its way to the output is the phrase matched
KwKwKWitness ==
    /\ d_pc = "drain"
    /\ \E i \in DOMAIN obs.reads :
          /\ obs.reads[i].sized
          /\ obs.reads[i].val >= DICT_SIZE_MIN
          /\ obs.reads[i].val = obs.reads[i].next - 1
          /\ (i - 1) \notin obs.rots
    /\ \E j \in DOMAIN obs.reads :
          /\ obs.reads[j].sized
          /\ obs.reads[j].val >= DICT_SIZE_MIN
          /\ obs.reads[j].val = obs.reads[j].next - 1
          /\ (j - 1) \in obs.rots
    /\ Last(obs.reads).val = Last(obs.reads).next - 1
    /\ Len(Pending(dec.main)) >= 2
    /\ Pending(dec.main) =
          SubSeq(input, obs.d_len - dec.main.n_bytes + 1, obs.d_len)

\* the call of dictionary_update on d and code changed d into u: the new
\* entry is linked to code and its label is not written, a pending entry of
\* the current epoch gets the first byte of the published string as label,
\* and every other parent and label is what it was
DeferredFill(d, code, u) ==
    /\ u.d_next = d.d_next + 1
    /\ RootAt(u, u.d_next - 1).parent = code
    /\ RootAt(u, u.d_next - 1).label = RootAt(d, d.d_next).label
    /\ d.d_next > d.d_min =>
          /\ Char(RootAt(u, d.d_next - 1).label) = Pending(u)[1]
          /\ RootAt(u, d.d_next - 1).label = SignExt16(Pending(u)[1])
          /\ RootAt(u, d.d_next - 1).parent = RootAt(d, d.d_next - 1).parent
    /\ \A p \in (DOMAIN u.root \cup DOMAIN d.root) :
          (p # d.d_next /\ (p # d.d_next - 1 \/ d.d_next = d.d_min))
             => RootAt(u, p) = RootAt(d, p)

\* the step of lz78_decompress that called dictionary_update, u being the
\* dictionary after the call
DeferredStep(u) ==
    /\ DeferredFill(dec.main, Last(obs'.reads).val, u)
    /\ ~obs'.d_rot => dec'.main = u

\* C23: after each dictionary_update(code) the entry d_next - 1 has parent
\* = code and a label the call did not write; a call that starts with a
\* pending entry of the current epoch (d_next > d_min) sets that entry's
\* label to the first byte of the string it decoded, and no other entry's
\* parent or label changes.  The dictionary after the call is the one
\* lz78_decompress goes on with, unless decompress_code rotated.
DeferredLabel ==
    [][DecodesCode
       => DeferredStep(dictionary_update(dec.main,
                                         Last(obs'.reads).val).d)]_vars

\* a call that started with a pending entry has just filled its label with
\* the first byte of a string of two bytes or more, different from the
\* string's last byte
DeferredLabelWitness ==
    /\ d_pc = "drain"
    /\ obs.reads # << >>
    /\ Last(obs.reads).sized
    /\ Last(obs.reads).val \notin Markers
    /\ ~obs.d_rot
    /\ Last(obs.reads).next > dec.main.d_min
    /\ dec.main.n_bytes >= 2
    /\ Pending(dec.main)[1] # Last(Pending(dec.main))
    /\ Char(RootAt(dec.main, dec.main.d_next - 2).label) =
          Pending(dec.main)[1]
    /\ RootAt(dec.main, dec.main.d_next - 1).parent = Last(obs.reads).val

\* ---------------------------------------------------- decoder bootstrap

\* lz78_decompress read the marker code and went on
ReadsMarker ==
    /\ d_pc = "read"
    /\ d_pc' = "drain"
    /\ Last(obs'.reads).val \in {DICT_CODE_START, DICT_CODE_SIZE}

\* lz78_decompress read the field that follows the marker and went on
ReadsSize ==
    /\ d_pc = "read"
    /\ d_pc' = "drain"
    /\ dec.main.d_next = DICT_SIZE_MAX
    /\ Last(obs'.reads).val \notin Markers

\* the marker makes the next read one of bitlen(DICT_SIZE_MAX) bits
BootstrapMarker ==
    ReadsMarker => /\ dec'.main.d_next = DICT_SIZE_MAX
                   /\ ReadWidth' = bitlen(DICT_SIZE_MAX)

\* the value read after the marker is the encoder's size, and both
\* dictionaries are created with it, empty
BootstrapSize ==
    ReadsSize => /\ Last(obs'.reads).width = bitlen(DICT_SIZE_MAX)
                 /\ Last(obs'.reads).val = enc.main.d_size
                 /\ dec'.main.d_size = enc.main.d_size
                 /\ dec'.main.d_next = DICT_SIZE_MIN
                 /\ dec'.main.d_min = DICT_SIZE_MIN
                 /\ dec'.secondary.d_size = enc.main.d_size
                 /\ dec'.secondary.d_next = DICT_SIZE_MIN
                 /\ dec'.secondary.root = << >>

\* neither field leaves bytes for lz78_decompress to write
BootstrapSilent ==
    (ReadsMarker \/ ReadsSize) => Pending(dec'.main) = << >>

\* C24: on the marker code the decoder sets main.d_next to DICT_SIZE_MAX so
\* that the next read takes bitlen(DICT_SIZE_MAX) bits; it takes the value
\* read next as the size D, creates a main dictionary and a secondary hash
\* dictionary of the encoder's size D with d_next = DICT_SIZE_MIN, and
\* writes no output byte for either of the two fields
Bootstrap ==
    [][BootstrapMarker /\ BootstrapSize /\ BootstrapSilent]_vars

\* ----------------------------------------------- ht_dictionary_update

\* the used slots of d that hold (d.cur_node, label)
Holding(d, label) ==
    {s \in DOMAIN d.root :
        d.root[s].parent = d.cur_node /\ d.root[s].label = label}

\* the labels ht_dictionary_update is tried with on d: those of the slots
\* whose parent is cur_node (the labels that match), the bytes of Alphabet
\* and the end symbol
Labels(d) ==
    {d.root[s].label : s \in {t \in DOMAIN d.root :
                                 d.root[t].parent = d.cur_node}}
    \cup Alphabet \cup {DICT_CODE_EOF}

\* u is d after a call that found the slot s holding (cur_node, label)
MatchEffect(d, s, u) ==
    u = [d EXCEPT !.prev_node = d.cur_node, !.cur_node = d.root[s].child]

\* u is d after a call that installed (cur_node, label)
InstallEffect(d, label, u) ==
    /\ Cardinality(DOMAIN u.root \ DOMAIN d.root) = 1
    /\ \A s \in DOMAIN u.root \ DOMAIN d.root :
          /\ s \in 0..(d.d_size - 1)
          /\ u.root[s] = [parent |-> d.cur_node, label |-> label,
                          child |-> d.d_next]
    /\ \A s \in DOMAIN d.root : s \in DOMAIN u.root /\ u.root[s] = d.root[s]
    /\ u = [d EXCEPT !.root = u.root,
                     !.prev_node = d.cur_node,
                     !.cur_node = label,
                     !.d_next = d.d_next + 1]

\* r is what ht_dictionary_update(d, label) returned, if it returned
UpdateEffect(d, label, r) ==
    IF r.hang
    THEN TRUE
    ELSE IF Holding(d, label) # {}
    THEN /\ r.ret = -1
         /\ \E s \in Holding(d, label) : MatchEffect(d, s, r.d)
    ELSE /\ r.ret = 0
         /\ InstallEffect(d, label, r.d)

\* C25: a call ht_dictionary_update(label) with a non-empty cur_node that
\* returns has one of two effects: if a used slot holds (cur_node, label)
\* it sets cur_node to that slot's child and changes no slot and not d_next;
\* otherwise it installs exactly one slot {parent = the old cur_node, label,
\* child = the old d_next}, sets cur_node = label, adds one to d_next and
\* changes no other slot.  In both cases prev_node is the old cur_node.
\* Stated of every hash dictionary the program reaches and every label.
UpdateFrame ==
    \A d \in HashDictionaries :
        d.cur_node # -1 =>
            \A label \in Labels(d) :
                UpdateEffect(d, label, ht_dictionary_update(d, label))

\* the compressor's primary holds two entries or more and its last call
\* followed the child of a slot; from here the update of the same pair
\* finds no slot and installs one
UpdateFrameWitness ==
    /\ c_pc = "run"
    /\ input # << >>
    /\ Cardinality(DOMAIN enc.main.root) >= 2
    /\ enc.main.cur_node >= DICT_SIZE_MIN
    /\ \E s \in DOMAIN enc.main.root :
          /\ enc.main.root[s].parent = enc.main.prev_node
          /\ enc.main.root[s].label = Last(input)
          /\ enc.main.root[s].child = enc.main.cur_node
    /\ Holding(enc.main, Last(input)) = {}
    /\ \E label \in Labels(enc.main) : Holding(enc.main, label) # {}

\* C26: between operations, in every hash dictionary (the compressor's
\* primary and secondary, the decompressor's secondary) the child codes of
\* the used slots are exactly DICT_SIZE_MIN, ..., d_next - 1, each held by
\* exactly one slot, also after a swap and after a reset
ConsecutiveCodes ==
    \A d \in HashDictionaries :
        /\ {d.root[s].child : s \in DOMAIN d.root}
              = DICT_SIZE_MIN..(d.d_next - 1)
        /\ Cardinality(DOMAIN d.root) = d.d_next - DICT_SIZE_MIN

\* after a swap and the reset that goes with it: the primary that was the
\* secondary holds entries, the reset secondary has collected new ones and
\* so has the decompressor's after its rotation
ConsecutiveCodesWitness ==
    /\ obs.swaps # {}
    /\ obs.rots # {}
    /\ Cardinality(DOMAIN enc.main.root) >= 2
    /\ enc.secondary.root # << >>
    /\ dec.secondary \notin {NULL, WILD}
    /\ dec.secondary.root # << >>

\* ------------------------------------------------------ reserved codes

\* the codes that are neither a literal nor the code of an entry
Reserved == DICT_CODE_EOF..(DICT_SIZE_MIN - 1)

\* C27: every code the encoder emits after the size and before the EOF code
\* is a literal 0..255 or a code >= DICT_SIZE_MIN: a reserved code among the
\* fields is the EOF code, emitted last and after the end of the input, and
\* the decoder reads a reserved value in a code field only where the
\* encoder wrote the EOF code
ReservedCodes ==
    /\ \A k \in 3..Len(obs.fields) :
          obs.fields[k].val \in Reserved
             => /\ obs.fields[k].val = DICT_CODE_EOF
                /\ k = Len(obs.fields)
                /\ in_eof
    /\ \A k \in 3..Len(obs.reads) :
          obs.reads[k].val \in Reserved
             => /\ k = Len(obs.fields)
                /\ k = Len(obs.reads)
                /\ obs.fields[k].val = DICT_CODE_EOF
                /\ obs.reads[k].val = DICT_CODE_EOF

\* both sides returned over a stream with literals, codes of entries and
\* the EOF code, which the decoder read last
ReservedCodesWitness ==
    /\ BothReturned
    /\ Len(obs.reads) = Len(obs.fields)
    /\ Len(obs.fields) >= 6
    /\ \E k \in 3..Len(obs.fields) : obs.fields[k].val < DICT_CODE_EOF
    /\ \E k \in 3..Len(obs.fields) : obs.fields[k].val >= DICT_SIZE_MIN
    /\ Last(obs.reads).val = DICT_CODE_EOF

\* -------------------------------------------------------- code widths

\* C28: within one epoch the widths of successive code emissions do not
\* decrease: a code field is narrower than the code field before it only
\* when the dictionaries swapped between the two, i.e. when the earlier of
\* the two is the code emitted by the call that swapped
WidthMonotone ==
    \A k \in 3..(Len(obs.fields) - 1) :
        obs.fields[k + 1].width < obs.fields[k].width => k \in obs.swaps

\* a finished stream in which the width grew inside an epoch and fell back
\* after a swap
WidthMonotoneWitness ==
    /\ c_pc = "ret"
    /\ \E k \in 3..(Len(obs.fields) - 1) :
          /\ obs.fields[k + 1].width > obs.fields[k].width
          /\ k \notin obs.swaps
    /\ \E k \in 3..(Len(obs.fields) - 1) :
          /\ obs.fields[k + 1].width < obs.fields[k].width
          /\ k \in obs.swaps

\* ------------------------------------------------------- the bit buffer

\* C29: in every reachable state of a write-mode bit_file w_len is at most
\* buff_size and the window starts inside the buffer; every bit bit_write
\* writes and every byte bit_flush hands to the descriptor lies inside the
\* buffer (io.ub records a position or a range outside it), also after a
\* flush that wrote only some or none of the buffered bytes
BufferBounds ==
    /\ ~io.ub
    /\ io.c_out # NULL =>
          /\ io.c_out.w_len <= io.c_out.buff_size
          /\ io.c_out.w_start < io.c_out.buff_size

\* the bits in the window of bf, the window wrapping at the end of the
\* buffer
Window(bf) ==
    [k \in 1..bf.w_len |->
        BitAt(bf.buff, (bf.w_start + k - 1) % bf.buff_size)]

\* the bits accepted so far are those the descriptor took followed by those
\* in the window, whole bytes only having gone to the descriptor; after
\* bit_close the descriptor has all of them, in order, in whole bytes
BitsKept ==
    /\ Len(wire) % 8 = 0
    /\ io.c_out # NULL => wire \o Window(io.c_out) = obs.accepted
    /\ c_pc = "ret" =>
          /\ io.left = 0
          /\ IsPrefix(obs.accepted, wire)
          /\ Len(wire) = 8 * ((Len(obs.accepted) + 7) \div 8)

\* a call that flushed leaves fewer than 8 bits in the window
FlushResidue ==
    (wire' # wire /\ io'.c_out # NULL) => io'.c_out.w_len < 8

\* C30: bit_flush hands only whole bytes to the descriptor and leaves a
\* residue of fewer than 8 bits in the window, values and order intact;
\* bit_close pads the residue to a whole byte and delivers it: once
\* bit_close has returned every bit accepted by bit_write has reached the
\* descriptor, in write order
NoBitLost == []BitsKept /\ [][FlushResidue]_vars


\* --------------------------------------------- a stream that ends early
(***************************************************************************)
(* wrapper_exec (wrapper.c) in decompress mode on the first run.cut bytes  *)
(* of a stream.  The input and the output are named files, opened by       *)
(* every call of wrapper_decompress (the input at its first byte, the      *)
(* output truncated), or the standard streams, which the first call        *)
(* closes.  A read at the end of the input returns 0.  The program is      *)
(* sequential and takes its next step unless it has returned or loops      *)
(* inside a call: weak fairness of the step that moves d_pc, which every   *)
(* action of NextTruncated is.                                             *)
(***************************************************************************)
Sources == {"file", "stdin"}

\* the stream lz78_compress writes for text with the size d
StreamOf(d, text) ==
    lz78_compress_all(lz78_new(LZ78_MODE_COMPRESS, d,
                               [n_bytes |-> 0, secondary |-> NULL]),
                      text, 1, << >>).wire

\* the runs on every proper prefix, in bytes, of the stream of a text
TruncatedRuns ==
    UNION {{[req |-> d, src |-> s, max |-> Len(t), text |-> t,
             arg |-> "own", cut |-> c] :
               c \in 0..(Len(StreamOf(d, t)) \div 8 - 1)} :
           d \in RetrySizes, s \in Sources, t \in CallTexts}

\* main, lines 96-103: the instance of wrapper_new, then wrapper_exec
InitTruncated ==
    /\ run \in TruncatedRuns
    /\ enc = lz78_new(LZ78_MODE_COMPRESS, run.req,
                      [n_bytes |-> 0, secondary |-> NULL])
    /\ input = run.text
    /\ in_eof = TRUE
    /\ wire = SubSeq(StreamOf(run.req, run.text), 1, 8 * run.cut)
    /\ c_pc = "ret"
    /\ c_ret = LZ78_SUCCESS
    /\ \E n \in HeapWords, p \in HeapPointers :
          dec = lz78_new(LZ78_MODE_DECOMPRESS, 0,
                         [n_bytes |-> n, secondary |-> p])
    /\ rpos = 0
    /\ output = << >>
    /\ d_pc = "call"
    /\ d_ret = LZ78_SUCCESS
    /\ obs = [fields |-> << >>, reads |-> << >>,
              c_swap |-> FALSE, d_rot |-> FALSE, d_ub |-> FALSE,
              c_fed |-> << << >> >>, d_fed |-> << << >> >>, d_len |-> 0,
              swaps |-> {}, rots |-> {}]
    /\ io = [closed |-> FALSE] @@ [NoStreams EXCEPT !.ready = 8 * run.cut]

\* wrapper_decompress, lines 243-261, then lz78_decompress, lines 545-559:
\* the descriptors of this call, the tests of the instance, and bit_open,
\* whose read of no byte (bitio.c, lines 52-58) fails on a closed descriptor
wrapper_decompress_open ==
    /\ d_pc = "call"
    /\ IF lz78_decompress_check(Passed(run.arg, dec, enc)) # LZ78_SUCCESS
       THEN /\ d_pc' = "ret"
            /\ d_ret' = lz78_decompress_check(Passed(run.arg, dec, enc))
            /\ UNCHANGED <<io, rpos, output>>
       ELSE IF run.src = "stdin" /\ io.closed
       THEN /\ d_pc' = "ret"
            /\ d_ret' = LZ78_ERROR_READ
            /\ UNCHANGED <<io, rpos, output>>
       ELSE /\ io' = [io EXCEPT !.d_in = bit_open(ACCESS_READ,
                                                  B_SIZE_DEFAULT)]
            /\ rpos' = IF run.src = "file" THEN 0 ELSE rpos
            /\ output' = IF run.src = "file" THEN << >> ELSE output
            /\ d_pc' = "drain"
            /\ UNCHANGED d_ret
    /\ UNCHANGED <<run, enc, input, in_eof, wire, c_pc, c_ret, dec, obs>>

\* lz78_decompress, lines 599-611, for the result r of decompress_code
lz78_decompress_result(r) ==
    /\ dec' = r.o
    /\ d_pc' = IF r.hang THEN "hang"
               ELSE IF r.ret < 0 \/ r.o.completed = 1 THEN "ret"
               ELSE "drain"
    /\ d_ret' = IF r.ret = -1 THEN LZ78_ERROR_DICTIONARY
                ELSE IF r.ret = -2 THEN LZ78_ERROR_DECOMPRESS
                ELSE LZ78_SUCCESS

\* lines 583-611 for the state r that bit_read ended in
lz78_decompress_unobserved(r) ==
    /\ io' = [io EXCEPT !.d_in = r.bf]
    /\ rpos' = rpos + r.taken
    /\ IF r.ret # ReadWidth
       THEN /\ dec' = [dec EXCEPT !.bitbuf = WordOf(r.word),
                                  !.n_bits = r.ret]
            /\ d_pc' = "ret"
            /\ d_ret' = LZ78_ERROR_EAGAIN
       ELSE \E n \in Heap(run), nomem \in Allocations(run) :
               lz78_decompress_result(
                   decompress_code([dec EXCEPT !.bitbuf = WordOf(r.word),
                                               !.n_bits = r.ret],
                                   WordOf(r.word), n, nomem))

\* lz78_decompress, lines 583-611, on a descriptor that returns 0 at the
\* end of the input; the reads are not recorded in obs, so that a program
\* that does the same again is in the same state again
lz78_decompress_file_read ==
    /\ d_pc = "read"
    /\ io.d_in # NULL
    /\ lz78_decompress_unobserved(
          bit_read(io.d_in, SubSeq(wire, rpos + 1, io.ready), ReadWidth))
    /\ UNCHANGED <<run, enc, input, in_eof, wire, c_pc, c_ret, output, obs>>

\* wrapper_decompress, lines 263-265, and wrapper_exec, lines 281-285: the
\* descriptors are closed, and the call is made again after the would-block
\* result
wrapper_exec_again ==
    /\ d_pc = "ret"
    /\ wrapper_return(d_ret) = WRAPPER_ERROR_EAGAIN
    /\ io' = [io EXCEPT !.d_in = NULL, !.closed = TRUE]
    /\ d_pc' = "call"
    /\ UNCHANGED <<run, enc, input, in_eof, wire, c_pc, c_ret,
                   dec, rpos, output, d_ret, obs>>

\* the same lines after any other result: wrapper_exec returns it
wrapper_exec_return ==
    /\ d_pc = "ret"
    /\ wrapper_return(d_ret) # WRAPPER_ERROR_EAGAIN
    /\ io' = [io EXCEPT !.d_in = NULL, !.closed = TRUE]
    /\ d_pc' = "exit"
    /\ UNCHANGED <<run, enc, input, in_eof, wire, c_pc, c_ret,
                   dec, rpos, output, d_ret, obs>>

NextTruncated ==
    \/ wrapper_decompress_open
    \/ lz78_decompress_drain
    \/ lz78_decompress_file_read
    \/ wrapper_exec_again
    \/ wrapper_exec_return

\* a step of the running program.  It is about to call wrapper_decompress,
\* in lz78_decompress's loop before the write or before the read, or back
\* from lz78_decompress, and it moves to another of these, out of
\* wrapper_exec ("exit") or into a loop of the codec that does not end
Step ==
    /\ d_pc \in {"call", "drain", "read", "ret"}
    /\ d_pc' \in {"call", "drain", "read", "ret", "exit", "hang"} \ {d_pc}

SpecTruncated ==
    InitTruncated /\ [][NextTruncated]_vars /\ WF_d_pc(Step)

\* wrapper_exec has returned a result that is an error
TerminalError ==
    /\ d_pc = "exit"
    /\ wrapper_return(d_ret) \notin {WRAPPER_SUCCESS, WRAPPER_ERROR_EAGAIN}

\* C31: on a compressed input that ends before its end code, decompression
\* driven by wrapper_exec eventually returns a terminal error, instead of
\* reporting would-block and being called again for ever
TruncatedTerminates == <>TerminalError


\* the indices of bytebuf that dictionary_update has written (lines 281
\* and 289) in the dictionary d
ScratchWritten(d) == DOMAIN d.bytebuf

\* C32: the scratch buffer of every dictionary made by dictionary_new,
\* whatever size was asked for or announced in the stream, has room for
\* d_size bytes, and every index dictionary_update writes, from d_size - 1
\* downward, lies inside the allocated buffer
ScratchCapacity ==
    dec.main # NULL =>
        /\ dec.main.cap >= dec.main.d_size
        /\ \A i \in ScratchWritten(dec.main) : i >= 0 /\ i < dec.main.cap

=============================================================================
